---- MODULE Spec2Model ----
(***************************************************************************)
(* PWSpy: the analysis pipeline and the results record.                    *)
(*                                                                         *)
(* Array data is symbolic: a value is a record [t, f, n] where t is the    *)
(* Python type of the value, f the results field the data was computed     *)
(* for and n the number of the analysis run that computed it.  Two values  *)
(* are the same data exactly when the three agree, so reading one field's  *)
(* dataset through another field's accessor, or changing the type on the   *)
(* way through the file, is visible.                                       *)
(***************************************************************************)
EXTENDS Integers, Sequences, FiniteSets, TLC

VARIABLES
    fs,         \* the `analyses` directory: results name -> file
    dirExists,  \* whether the `analyses` directory exists
    written,    \* history: name -> the record a successful toHDF5 was given
    loader,     \* the one results loader object alive (or none)
    lastOp,     \* the last operation called and what it returned or raised
    an,         \* the analysis object (PWSAnalysis or the older Analysis)
    ref,        \* the reference cube object the caller holds
    cubes,      \* the sample cube objects the caller holds
    run,        \* the invocation of run in progress or last finished
    nruns,      \* calls of run so far
    st,         \* the last settings conversion: what it was given and gave
    batch,      \* the batch of the analysis thread: workers, files, signals
    mgr         \* the analysis manager: the listed analyses and runSingle

storeVars == <<fs, dirExists, written, loader, lastOp>>
runVars == <<an, ref, cubes, run, nruns>>
appVars == <<st, batch, mgr>>
vars == <<fs, dirExists, written, loader, lastOp, an, ref, cubes, run, nruns, st, batch, mgr>>

----------------------------------------------------------------------------
(* Bounds *)

MaxRun == 2        \* analysis runs whose records may be written
MaxLoaded == 2     \* fields one loader may load one by one (loadAll is exempt)
MaxLoaders == 2    \* loader objects constructed one after the other
NCubes == 2        \* sample cubes
MaxRuns == 2       \* calls of run
RefLen == 3        \* spectral length of the reference cube
Rows == 2          \* rows of a camera frame
Cols == 3          \* columns of a camera frame

----------------------------------------------------------------------------
(* Values *)

V(t, f, n) == [t |-> t, f |-> f, n |-> n]
None == V("None", "", 0)
Absent == V("absent", "", 0)        \* no dataset under this key
NotLoaded == V("NotLoaded", "", 0)  \* attribute not in the instance __dict__

Err(type, msg, names) == [type |-> type, msg |-> msg, names |-> names]
NoErr == Err("", "", "")

Names == {"a", "b"}

\* dataclass AnalysisResults: the fields in declaration order
Fields ==
    << "settings", "reflectance", "meanReflectance", "rms", "polynomialRms",
       "autoCorrelationSlope", "rSquared", "ld", "opd", "opdIndex",
       "imCubeIdTag", "referenceIdTag", "extraReflectionTag", "time" >>

FieldSet == {Fields[i] : i \in 1..Len(Fields)}

\* what skipAdvanced leaves at None
AdvancedFields ==
    {"polynomialRms", "autoCorrelationSlope", "rSquared", "ld", "opd", "opdIndex"}

\* every key a loader asks the file for
Keys == FieldSet \cup {"xvalOpd"}

EmptyHf == [k \in Keys |-> Absent]
NoFile == [exists |-> FALSE, hf |-> EmptyHf]

\* The records handed to toHDF5.  skip: the advanced fields are None;
\* er: an extra reflection was used; bad: a field holding a value of a type
\* toHDF5 does not know (opd as the (opd, opdIndex) tuple, settings None).
BadChoices == {"", "opd", "settings"}

AnalysisResults(skip, er, bad, n) ==
    [f \in FieldSet |->
        CASE f = "settings" ->
                IF bad = "settings" THEN None ELSE V("AnalysisSettings", f, n)
          [] f = "reflectance" -> V("KCube", f, n)
          [] f \in {"meanReflectance", "rms"} -> V("ndarray", f, n)
          [] f \in AdvancedFields ->
                IF skip THEN None
                ELSE IF f = bad THEN V("tuple", f, n) ELSE V("ndarray", f, n)
          [] f = "extraReflectionTag" -> IF er THEN V("str", f, n) ELSE None
          [] f = "time" -> V("str", f, n)    \* __post_init__ always sets it
          [] OTHER -> V("str", f, n)]        \* imCubeIdTag, referenceIdTag

Records ==
    {AnalysisResults(skip, er, bad, n) :
        skip \in BOOLEAN, er \in BOOLEAN, bad \in BadChoices, n \in 1..MaxRun}

NoRecord == [f \in FieldSet |-> Absent]

----------------------------------------------------------------------------
(* Conversions on the way into and out of the file *)

toJsonString(v) == [v EXCEPT !.t = "str"]

fromJsonString(v) ==
    IF v.t = "str"
    THEN [err |-> NoErr, val |-> [v EXCEPT !.t = "AnalysisSettings"]]
    ELSE [err |-> Err("TypeError", "the JSON object must be str", v.f), val |-> None]

np_string_(v) == [v EXCEPT !.t = "bytes"]

\* bytes(np.array(dataset)).decode()
decode(ds) == [ds EXCEPT !.t = "str"]

\* np.array(dataset): the dataset's contents as an array in memory
np_array(ds) == [ds EXCEPT !.t = "ndarray"]

create_dataset(hf, k, data) ==
    [hf EXCEPT ![k] =
        [data EXCEPT !.t = IF data.t = "bytes" THEN "DatasetBytes" ELSE "DatasetArray"]]

toHdfDataset(cube, hf, k) == [hf EXCEPT ![k] = [cube EXCEPT !.t = "DatasetCube"]]

fromHdfDataset(ds) == [ds EXCEPT !.t = "KCube"]

----------------------------------------------------------------------------
(* Cubes.  The data of a cube is the sequence of the operations applied to  *)
(* the raw counts, each with the operations of the cube it took as operand. *)

CubeIds == 1..NCubes

Applied(op, arg) == [op |-> op, arg |-> arg]

RECURSIVE OpsOf(_)
OpsOf(data) == IF data = <<>> THEN <<>> ELSE <<Head(data).op>> \o OpsOf(Tail(data))

RawCube(idTag, nidx, corrected) ==
    [idTag |-> idTag, data |-> <<>>, nidx |-> nidx, index |-> "wavelengths",
     cameraCorrected |-> corrected]

NoCube == [idTag |-> 0, data |-> <<>>, nidx |-> 0, index |-> "", cameraCorrected |-> FALSE]

Apply(cube, op, arg) == [cube EXCEPT !.data = Append(@, Applied(op, arg))]

correctCameraEffects(cube) ==
    [Apply(cube, "cameraCorrection", <<>>) EXCEPT !.cameraCorrected = TRUE]

normalizeByExposure(cube) == Apply(cube, "exposure", <<>>)

filterDust(cube) == Apply(cube, "dust", <<>>)

subtractExtraReflection(cube, Iextra) == Apply(cube, "extraReflection", OpsOf(Iextra.data))

\* the division by the reference needs equal spectral indices
normalizeByReference(cube, reference) ==
    IF cube.nidx # reference.nidx
    THEN [err |-> Err("ValueError", "shape mismatch", ""), cube |-> cube]
    ELSE [err |-> NoErr, cube |-> Apply(cube, "reference", OpsOf(reference.data))]

\* cube.data.shape
Shape(cube) == <<Rows, Cols, cube.nidx>>

\* A variant the claims must notice: the statistic is taken along axis 0.
AxisReduce_axis0(shape) == Tail(shape)

\* the shape of data.mean(axis=2) and of data.std(axis=2)
AxisReduce(shape) == SubSeq(shape, 1, 2)

\* cube.selIndex(start, stop): a new cube of the indices inside the window;
\* window: wavelengthStart..wavelengthStop holds every index of the cube
\* ("whole"), all but the last ("inside") or none ("outside")
selIndex(cube, window) ==
    [Apply(cube, "selIndex", <<>>) EXCEPT
        !.nidx = CASE window = "whole" -> @
                   [] window = "inside" -> @ - 1
                   [] OTHER -> 0]

\* settings of the models: the fields the pipeline branches on
SettingsSet ==
    [referenceMaterial : {"None", "Water"}, relativeUnits : BOOLEAN,
     skipAdvanced : BOOLEAN, window : {"whole", "inside", "outside"}]

NoSettings ==
    [referenceMaterial |-> "None", relativeUnits |-> FALSE, skipAdvanced |-> FALSE,
     window |-> ""]

NoExtra == [present |-> FALSE, idTag |-> 0, data |-> <<>>]

NoAnalysis ==
    [class |-> "none", settings |-> NoSettings, ref |-> NoCube,
     extraReflection |-> NoExtra, initWarnings |-> {}]

\* A variant the claims must notice: the extra reflection is accepted
\* without a reference material.
PWSAnalysis_init_noAssert(settings, erMeta, r) ==
    IF ~r.cameraCorrected
    THEN [err |-> Err("AssertionError", "reference not camera corrected", ""),
          an |-> NoAnalysis, ref |-> r]
    ELSE
    LET r1 == filterDust(normalizeByExposure(r))
        w1 == IF settings.referenceMaterial = "None"
              THEN {"Ignoring reference material"} ELSE {}
        Iextra == IF erMeta = "None" THEN NoExtra
                  ELSE [present |-> TRUE, idTag |-> 1,
                        data |-> <<Applied("create", OpsOf(r1.data))>>]
        w2 == IF erMeta = "None" THEN {"Ignoring extra reflection correction."} ELSE {}
        r2 == IF erMeta = "None" THEN r1 ELSE subtractExtraReflection(r1, Iextra)
        stored == IF ~settings.relativeUnits THEN Apply(r2, "theory", <<>>) ELSE r2
    IN [err |-> NoErr,
        an |-> [class |-> "PWSAnalysis", settings |-> settings, ref |-> stored,
                extraReflection |-> Iextra, initWarnings |-> w1 \cup w2],
        ref |-> r2]

\* PWSAnalysis.__init__(settings, extraReflectanceMetadata, ref): what it
\* raises, the object, and the caller's reference cube, which it changes in
\* place up to the division by the theoretical reflectance
PWSAnalysis_init(settings, erMeta, r) ==
    IF ~r.cameraCorrected
    THEN [err |-> Err("AssertionError", "reference not camera corrected", ""),
          an |-> NoAnalysis, ref |-> r]
    ELSE
    LET r1 == filterDust(normalizeByExposure(r))
        w1 == IF settings.referenceMaterial = "None"
              THEN {"Ignoring reference material"} ELSE {}
    IN IF settings.referenceMaterial = "None" /\ erMeta # "None"
       THEN [err |-> Err("AssertionError", "Extra reflectance calibration relies on theoretical reflectance", ""),
             an |-> NoAnalysis, ref |-> r1]
       ELSE
       LET Iextra == IF erMeta = "None" THEN NoExtra
                     ELSE [present |-> TRUE, idTag |-> 1,
                           data |-> <<Applied("create", OpsOf(r1.data))>>]
           w2 == IF erMeta = "None" THEN {"Ignoring extra reflection correction."} ELSE {}
           r2 == IF erMeta = "None" THEN r1 ELSE subtractExtraReflection(r1, Iextra)
           stored == IF ~settings.relativeUnits THEN Apply(r2, "theory", <<>>) ELSE r2
       IN [err |-> NoErr,
           an |-> [class |-> "PWSAnalysis", settings |-> settings, ref |-> stored,
                   extraReflection |-> Iextra, initWarnings |-> w1 \cup w2],
           ref |-> r2]

\* the order of the statements of run
runOrder_rangeFirst ==
    << "Normalizing", "RangeSelecting", "Filtering", "DomainConverting", "Detrending",
       "ComputingStatistics", "Packaged" >>

runOrder ==
    << "Normalizing", "Filtering", "RangeSelecting", "DomainConverting", "Detrending",
       "ComputingStatistics", "Packaged" >>

StageIndex(stage) == CHOOSE i \in 1..Len(runOrder) : runOrder[i] = stage

\* the statement `stage` is the next one of the invocation
Ready(stage) ==
    run.pc = IF StageIndex(stage) = 1 THEN "Created" ELSE runOrder[StageIndex(stage) - 1]

\* the locals of run that PWSAnalysisResults.create is given
StatFields == {"rms", "polynomialRms", "autoCorrelationSlope", "rSquared", "ld"}

\* the arrays of the record; run.shapes keeps the shape of each
ArrayFields == StatFields \cup {"reflectance", "meanReflectance"}

\* no invocation has returned a record yet
NoPrev == [c |-> 0, results |-> [f \in FieldSet |-> Absent], data |-> <<>>]

IdleRun ==
    [pc |-> "Idle", c |-> 0, cube |-> NoCube, cubeIsNone |-> FALSE, trace |-> <<>>,
     err |-> NoErr, stats |-> [f \in StatFields |-> Absent],
     shapes |-> [f \in ArrayFields |-> <<>>],
     results |-> [f \in FieldSet |-> Absent], warns |-> {}, prev |-> NoPrev]

\* what the invocation r returned, for the caller to compare the next with
Returned(r) ==
    IF r.pc = "Packaged"
    THEN [c |-> r.c, results |-> r.results, data |-> r.cube.data]
    ELSE NoPrev

Enter(r, stage) == [r EXCEPT !.pc = stage, !.trace = Append(@, stage)]

Fail(r, err) == [Enter(r, "Failed") EXCEPT !.err = err]

\* PWSAnalysis or Analysis constructed, with the reference as it was loaded.
\* The older Analysis takes the reference with each run.
Construct(class, settings, erMeta) ==
    /\ an.class = "none"
    /\ ref.data = <<>>
    /\ IF class = "PWSAnalysis"
       THEN LET r == PWSAnalysis_init(settings, erMeta, ref)
            IN /\ an' = r.an /\ ref' = r.ref
               /\ lastOp' = [op |-> "__init__", name |-> settings.referenceMaterial,
                             field |-> erMeta, err |-> r.err, val |-> None]
       ELSE /\ erMeta = "None"
            /\ an' = [NoAnalysis EXCEPT !.class = "Analysis", !.settings = settings]
            /\ ref' = ref
            /\ lastOp' = lastOp
    /\ UNCHANGED <<cubes, run, nruns>>
    /\ UNCHANGED <<fs, dirExists, written, loader>>

\* run(cube) is called; PWSAnalysis.run asserts the camera correction
Run(c) ==
    /\ an.class # "none"
    /\ run.pc \in {"Idle", "Packaged", "Failed"}
    /\ nruns < MaxRuns
    /\ nruns' = nruns + 1
    /\ LET r0 == Enter([IdleRun EXCEPT !.c = c, !.prev = Returned(run)], "Created")
       IN run' = IF an.class = "PWSAnalysis" /\ ~cubes[c].cameraCorrected
                 THEN Fail(r0, Err("AssertionError", "", ""))
                 ELSE r0
    /\ UNCHANGED <<an, ref, cubes>>

\* A variant the claims must notice: the extra reflection is subtracted
\* after the division by the reference.
Normalize_extraAfterReference ==
    /\ Ready("Normalizing")
    /\ IF an.class = "PWSAnalysis"
       THEN LET c1 == normalizeByExposure(cubes[run.c])
                n == normalizeByReference(c1, an.ref)
                c2 == IF an.extraReflection.present /\ n.err = NoErr
                      THEN subtractExtraReflection(n.cube, an.extraReflection) ELSE n.cube
            IN /\ cubes' = [cubes EXCEPT ![run.c] = c2]
               /\ run' = IF n.err # NoErr THEN Fail(run, n.err) ELSE Enter(run, "Normalizing")
               /\ ref' = ref
       ELSE LET c1 == normalizeByExposure(correctCameraEffects(cubes[run.c]))
                r1 == normalizeByExposure(correctCameraEffects(ref))
                n == normalizeByReference(c1, r1)
            IN /\ cubes' = [cubes EXCEPT ![run.c] = n.cube]
               /\ ref' = r1
               /\ run' = IF n.err # NoErr THEN Fail(run, n.err) ELSE Enter(run, "Normalizing")
    /\ UNCHANGED <<an, nruns>>

\* A variant the claims must notice: the reference of the analysis object
\* is normalized in place by each run.
Normalize_sharedReference ==
    /\ Ready("Normalizing")
    /\ LET c1 == normalizeByExposure(cubes[run.c])
           c2 == IF an.extraReflection.present
                 THEN subtractExtraReflection(c1, an.extraReflection) ELSE c1
           r1 == normalizeByExposure(an.ref)
           n == normalizeByReference(c2, r1)
       IN /\ cubes' = [cubes EXCEPT ![run.c] = n.cube]
          /\ run' = IF n.err # NoErr THEN Fail(run, n.err) ELSE Enter(run, "Normalizing")
          /\ an' = [an EXCEPT !.ref = r1]
    /\ UNCHANGED <<ref, nruns>>

\* _normalizeImCube, on the caller's cube object
Normalize ==
    /\ Ready("Normalizing")
    /\ IF an.class = "PWSAnalysis"
       THEN LET c1 == normalizeByExposure(cubes[run.c])
                c2 == IF an.extraReflection.present
                      THEN subtractExtraReflection(c1, an.extraReflection) ELSE c1
                n == normalizeByReference(c2, an.ref)
            IN /\ cubes' = [cubes EXCEPT ![run.c] = n.cube]
               /\ run' = IF n.err # NoErr THEN Fail(run, n.err) ELSE Enter(run, "Normalizing")
               /\ ref' = ref
       ELSE LET c1 == normalizeByExposure(correctCameraEffects(cubes[run.c]))
                r1 == normalizeByExposure(correctCameraEffects(ref))
                n == normalizeByReference(c1, r1)
            IN /\ cubes' = [cubes EXCEPT ![run.c] = n.cube]
               /\ ref' = r1
               /\ run' = IF n.err # NoErr THEN Fail(run, n.err) ELSE Enter(run, "Normalizing")
    /\ UNCHANGED <<an, nruns>>

\* _filterSignal over the whole spectrum.  PWSAnalysis assigns the result to
\* cube.data; the older _filterSignal assigns cube.data itself and returns
\* nothing, and run keeps that None as its cube.
Filter ==
    /\ Ready("Filtering")
    /\ cubes' = [cubes EXCEPT ![run.c] = Apply(@, "filter", <<>>)]
    /\ run' = [Enter(run, "Filtering") EXCEPT !.cubeIsNone = (an.class = "Analysis")]
    /\ UNCHANGED <<an, ref, nruns>>

\* cube.selIndex(wavelengthStart, wavelengthStop): a new cube; then the mean
RangeSelect ==
    /\ Ready("RangeSelecting")
    /\ run' = IF run.cubeIsNone
              THEN Fail(run, Err("AttributeError", "NoneType has no attribute wvIndex", ""))
              ELSE IF an.settings.window = "outside"
              THEN Fail(run, Err("IndexError", "empty range", ""))
              ELSE LET sel == selIndex(cubes[run.c], an.settings.window)
                   IN [Enter(run, "RangeSelecting") EXCEPT
                          !.cube = sel,
                          !.shapes["meanReflectance"] = AxisReduce(Shape(sel))]
    /\ UNCHANGED <<an, ref, cubes, nruns>>

\* KCube.fromImCube
DomainConvert ==
    /\ Ready("DomainConverting")
    /\ run' = [Enter(run, "DomainConverting") EXCEPT
                  !.cube = [Apply(@, "kspace", <<>>) EXCEPT !.index = "wavenumbers"]]
    /\ UNCHANGED <<an, ref, cubes, nruns>>

\* cube.data = cube.data - self._fitPolynomial(cube)
Detrend ==
    /\ Ready("Detrending")
    /\ run' = [Enter(run, "Detrending") EXCEPT !.cube = Apply(@, "detrend", <<>>)]
    /\ UNCHANGED <<an, ref, cubes, nruns>>

\* rms, and unless skipAdvanced the polynomial rms, the slope, r squared, ld
ComputeStatistics ==
    /\ Ready("ComputingStatistics")
    /\ run' = [Enter(run, "ComputingStatistics") EXCEPT
                  !.stats = [f \in StatFields |->
                                IF f # "rms" /\ an.settings.skipAdvanced THEN None
                                ELSE V("ndarray", f, run.c)],
                  !.shapes = [f \in ArrayFields |->
                                IF f \notin StatFields THEN @[f]
                                ELSE IF f # "rms" /\ an.settings.skipAdvanced THEN <<>>
                                ELSE AxisReduce(Shape(run.cube))]]
    /\ UNCHANGED <<an, ref, cubes, nruns>>

\* A variant the claims must notice: the reference tag is taken from the
\* sample cube.
create_cubeTags(stats, c, refId, Iextra, now) ==
    [f \in FieldSet |->
        CASE f \in {"opd", "opdIndex"} -> Absent
          [] f = "settings" -> V("AnalysisSettings", f, 0)
          [] f = "reflectance" -> V("KCube", f, c)
          [] f = "meanReflectance" -> V("ndarray", f, c)
          [] f \in StatFields -> stats[f]
          [] f = "extraReflectionTag" ->
                IF Iextra.present THEN V("str", f, Iextra.idTag) ELSE None
          [] f = "time" -> V("str", f, now)
          [] OTHER -> V("str", f, c)]

\* PWSAnalysisResults.create(...): the dictionary of the record; c and refId
\* are the idTags of the sample cube and of the reference, now is the clock
create(stats, c, refId, Iextra, now) ==
    [f \in FieldSet |->
        CASE f \in {"opd", "opdIndex"} -> Absent
          [] f = "settings" -> V("AnalysisSettings", f, 0)
          [] f = "reflectance" -> V("KCube", f, c)
          [] f = "meanReflectance" -> V("ndarray", f, c)
          [] f \in StatFields -> stats[f]
          [] f = "extraReflectionTag" ->
                IF Iextra.present THEN V("str", f, Iextra.idTag) ELSE None
          [] f = "referenceIdTag" -> V("str", f, refId)
          [] f = "time" -> V("str", f, now)
          [] OTHER -> V("str", f, c)]

\* the record is made and run returns it with the warnings
Package ==
    /\ Ready("Packaged")
    /\ run' = [Enter(run, "Packaged") EXCEPT
                  !.results = create(run.stats, run.cube.idTag, an.ref.idTag,
                                      an.extraReflection, nruns),
                  !.shapes["reflectance"] = Shape(run.cube),
                  !.warns = an.initWarnings]
    /\ UNCHANGED <<an, ref, cubes, nruns>>

RunStep ==
    \/ Normalize
    \/ Filter
    \/ RangeSelect
    \/ DomainConvert
    \/ Detrend
    \/ ComputeStatistics
    \/ Package

\* no settings conversion has been called
NoSt == [op |-> "", in |-> <<>>, self |-> <<>>, out |-> <<>>, err |-> NoErr]

\* what _process returned for a cell: nothing yet
NoOut == [results |-> [f \in FieldSet |-> Absent], data |-> <<>>, warns |-> {},
          md |-> 0]

\* no batch has been started
NoBatch ==
    [state |-> "idle", parallel |-> FALSE, cur |-> 0,
     parked |-> [c \in CubeIds |-> IdleRun],
     phase |-> [c \in CubeIds |-> "none"],
     files |-> [c \in CubeIds |-> NoFile],
     out |-> [c \in CubeIds |-> NoOut],
     emitted |-> <<>>,
     warnings |-> [isNone |-> TRUE, list |-> {}],
     report |-> [made |-> FALSE, err |-> NoErr, done |-> {}]]

\* runList has not been called
NoMgr == [pc |-> "none"]

IdleAppVars == st = NoSt /\ batch = NoBatch /\ mgr = NoMgr

IdleRunVars ==
    /\ an = NoAnalysis
    /\ ref = RawCube(0, RefLen, TRUE)
    /\ cubes = [c \in CubeIds |-> RawCube(c, RefLen, TRUE)]
    /\ run = IdleRun
    /\ nruns = 0

----------------------------------------------------------------------------
(* AnalysisResults.toHDF5 *)

\* A bug the claims must notice: None written as a sentinel dataset.
WriteField_sentinel(hf, k, v0) ==
    IF k = "settings" /\ v0.t = "None"
    THEN [hf |-> hf, err |-> Err("AttributeError", "has no attribute toJsonString", k)]
    ELSE LET v == IF k = "settings" THEN toJsonString(v0) ELSE v0
         IN CASE v.t = "str" ->
                    [hf |-> create_dataset(hf, k, np_string_(v)), err |-> NoErr]
              [] v.t = "KCube" -> [hf |-> toHdfDataset(v, hf, k), err |-> NoErr]
              [] v.t = "ndarray" -> [hf |-> create_dataset(hf, k, v), err |-> NoErr]
              [] v.t = "None" ->
                    [hf |-> create_dataset(hf, k, V("ndarray", k, 0)), err |-> NoErr]
              [] OTHER ->
                    [hf |-> hf, err |-> Err("TypeError", "not supported or expected", k)]

\* one pass of the loop over self.__dict__.items()
WriteField(hf, k, v0) ==
    IF k = "settings" /\ v0.t = "None"
    THEN [hf |-> hf, err |-> Err("AttributeError", "has no attribute toJsonString", k)]
    ELSE LET v == IF k = "settings" THEN toJsonString(v0) ELSE v0
         IN CASE v.t = "str" ->
                    [hf |-> create_dataset(hf, k, np_string_(v)), err |-> NoErr]
              [] v.t = "KCube" -> [hf |-> toHdfDataset(v, hf, k), err |-> NoErr]
              [] v.t = "ndarray" -> [hf |-> create_dataset(hf, k, v), err |-> NoErr]
              [] v.t = "None" -> [hf |-> hf, err |-> NoErr]
              [] OTHER ->
                    [hf |-> hf, err |-> Err("TypeError", "not supported or expected", k)]

\* the loop: the first error leaves the `with` block, which closes the file
\* with what was written so far
RECURSIVE WriteFields(_, _, _)
WriteFields(self, i, hf) ==
    IF i > Len(Fields) THEN [hf |-> hf, err |-> NoErr]
    ELSE LET r == WriteField(hf, Fields[i], self[Fields[i]])
         IN IF r.err # NoErr THEN r ELSE WriteFields(self, i + 1, r.hf)

\* A bug the claims must notice: no osp.exists test, mode 'w' truncates.
toHDF5_overwrite(self, files, directory, name) ==
    IF ~directory
    THEN [fs |-> files, err |-> Err("OSError", "unable to create file", name)]
    ELSE LET r == WriteFields(self, 1, EmptyHf)
         IN [fs |-> [files EXCEPT ![name] = [exists |-> TRUE, hf |-> r.hf]],
             err |-> r.err]

\* toHDF5(self, directory, name) on the files `files`; directory: it exists
toHDF5(self, files, directory, name) ==
    IF files[name].exists
    THEN [fs |-> files, err |-> Err("OSError", "already exists", name)]
    ELSE IF ~directory
    THEN [fs |-> files, err |-> Err("OSError", "unable to create file", name)]
    ELSE LET r == WriteFields(self, 1, EmptyHf)
         IN [fs |-> [files EXCEPT ![name] = [exists |-> TRUE, hf |-> r.hf]],
             err |-> r.err]

Op(op, name, field, err, val) ==
    [op |-> op, name |-> name, field |-> field, err |-> err, val |-> val]

NoLoader ==
    [state |-> "none", kind |-> "", name |-> "", id |-> 0, handle |-> "none",
     closes |-> 0, dict |-> [f \in FieldSet |-> Absent],
     cache |-> [f \in FieldSet |-> NotLoaded],
     reads |-> [f \in FieldSet |-> 0]]

\* AnalysisResults.toHDF5 called on an existing or missing directory
ToHDF5(name, rec) ==
    LET r == toHDF5(rec, fs, dirExists, name)
    IN /\ fs' = r.fs
       /\ written' = IF r.err = NoErr THEN [written EXCEPT ![name] = rec] ELSE written
       /\ lastOp' = Op("toHDF5", name, "", r.err, None)
       /\ UNCHANGED <<dirExists, loader>>
       /\ UNCHANGED <<runVars, appVars>>

\* ICMetaData.saveAnalysis: make the directory when missing, then toHDF5
saveAnalysis(name, rec) ==
    LET r == toHDF5(rec, fs, TRUE, name)
    IN /\ dirExists' = TRUE
       /\ fs' = r.fs
       /\ written' = IF r.err = NoErr THEN [written EXCEPT ![name] = rec] ELSE written
       /\ lastOp' = Op("saveAnalysis", name, "", r.err, None)
       /\ UNCHANGED loader
       /\ UNCHANGED <<runVars, appVars>>

InitStore ==
    /\ fs = [n \in Names |-> NoFile]
    /\ dirExists = FALSE
    /\ written = [n \in Names |-> NoRecord]
    /\ loader = NoLoader
    /\ lastOp = Op("", "", "", NoErr, None)
    /\ IdleRunVars
    /\ IdleAppVars

NextStore ==
    \E name \in Names, rec \in Records :
        \/ ToHDF5(name, rec)
        \/ saveAnalysis(name, rec)

SpecStore == InitStore /\ [][NextStore]_vars

----------------------------------------------------------------------------
(* Reading: AnalysisResultsLoader and PWSAnalysisResults *)

\* self.file[k]: the dataset under k, or h5py's KeyError
H5Get(file, k) ==
    IF file[k] # Absent
    THEN [err |-> NoErr, val |-> file[k]]
    ELSE [err |-> Err("KeyError", "object doesn't exist", k), val |-> None]

Res(self, err, val) == [self |-> self, err |-> err, val |-> val]

\* a property body fetched its data from the file
Fetched(self, f) == [self EXCEPT !.reads[f] = @ + 1]

EncodeTags == {"imCubeIdTag", "referenceIdTag", "extraReflectionTag"}

\* AnalysisResultsLoader: the bodies of the properties
AnalysisResultsLoader_func(self, file, f) ==
    LET key == CASE f = "meanReflectance" -> "reflectance"
                 [] f = "opdIndex" -> "xvalOpd"
                 [] OTHER -> f
        d == H5Get(file, key)
    IN IF d.err # NoErr THEN Res(self, d.err, None)
       ELSE CASE f = "settings" ->
                    \* fromJsonString is handed the dataset, not its text
                    LET j == fromJsonString(d.val)
                    IN Res(IF j.err = NoErr THEN Fetched(self, f) ELSE self, j.err, j.val)
              [] f \in EncodeTags ->
                    \* a dataset has no encode()
                    Res(self, Err("AttributeError", "Dataset has no attribute encode", f), None)
              [] f = "time" -> Res(Fetched(self, f), NoErr, d.val)
              [] f = "reflectance" -> Res(Fetched(self, f), NoErr, fromHdfDataset(d.val))
              [] f = "meanReflectance" ->
                    \* np.ndarray(dataset) takes the dataset for a shape
                    Res(self, Err("TypeError", "expected a shape", f), None)
              [] OTHER -> Res(Fetched(self, f), NoErr, np_array(d.val))

\* cube.getOpd(isHannWindow=False, indexOpdStop=100): the pair (opd, opdIndex)
getOpd(cube) == [cube EXCEPT !.t = "tuple"]

\* A variant the claims must notice: opd goes through self.reflectance, so
\* reading opd also loads the reflectance field.
opd_viaReflectance(self, file) ==
    IF self.cache["reflectance"] # NotLoaded
    THEN Res(self, NoErr, getOpd(self.cache["reflectance"]))
    ELSE LET d == H5Get(file, "reflectance")
         IN IF d.err # NoErr THEN Res(self, d.err, None)
            ELSE LET cube == fromHdfDataset(d.val)
                     s1 == [Fetched(self, "reflectance") EXCEPT !.cache["reflectance"] = cube]
                 IN Res(s1, NoErr, getOpd(cube))

\* PWSAnalysisResults.opd
opd(self, file) ==
    LET d == H5Get(file, "reflectance")
    IN IF d.err # NoErr THEN Res(self, d.err, None)
       ELSE Res(Fetched(self, "opd"), NoErr, getOpd(fromHdfDataset(d.val)))

\* PWSAnalysisResults: the bodies of the other properties
PWSAnalysisResults_func(self, file, f) ==
    IF f = "opd" THEN opd(self, file)
    ELSE LET d == H5Get(file, f)
         IN IF d.err # NoErr THEN Res(self, d.err, None)
            ELSE CASE f = "settings" ->
                        LET j == fromJsonString(decode(d.val))
                        IN Res(IF j.err = NoErr THEN Fetched(self, f) ELSE self, j.err, j.val)
                   [] f \in EncodeTags -> Res(Fetched(self, f), NoErr, decode(d.val))
                   [] f = "time" -> Res(Fetched(self, f), NoErr, d.val)
                   [] f = "reflectance" -> Res(Fetched(self, f), NoErr, fromHdfDataset(d.val))
                   [] OTHER -> Res(Fetched(self, f), NoErr, np_array(d.val))

\* @getFromDict: without a file the value comes from self.dict
getFromDict(self, file, f) ==
    IF self.handle = "None"
    THEN IF self.dict[f] # Absent
         THEN Res(self, NoErr, self.dict[f])
         ELSE Res(self, Err("KeyError", "", f), None)
    ELSE PWSAnalysisResults_func(self, file, f)

\* @clearError: a KeyError is raised again with a message naming the property
clearError(self, file, f) ==
    LET r == getFromDict(self, file, f)
    IN IF r.err.type = "KeyError"
       THEN Res(r.self, Err("KeyError", "The analysis file does not contain item", f), None)
       ELSE r

\* @cached_property: the value of the first call that returns is kept in the
\* instance __dict__ under the property's name
cached_property(self, file, f) ==
    IF self.cache[f] # NotLoaded THEN Res(self, NoErr, self.cache[f])
    ELSE LET r == IF self.kind = "AnalysisResultsLoader"
                  THEN AnalysisResultsLoader_func(self, file, f)
                  ELSE clearError(self, file, f)
         IN IF r.err # NoErr THEN r
            ELSE Res([r.self EXCEPT !.cache[f] = r.val], NoErr, r.val)

\* the properties each class defines
Props(kind) ==
    IF kind = "AnalysisResultsLoader" THEN FieldSet ELSE FieldSet \ {"opdIndex"}

\* PWSAnalysisResults.fields()
fields ==
    << "time", "reflectance", "meanReflectance", "rms", "polynomialRms",
       "autoCorrelationSlope", "rSquared", "ld", "imCubeIdTag", "referenceIdTag",
       "extraReflectionTag", "settings" >>

\* the list AnalysisResultsLoader.loadAllFromDisk builds, left to right
loadAllList ==
    << "opdIndex", "opd", "ld", "rSquared", "autoCorrelationSlope", "polynomialRms",
       "rms", "reflectance", "time", "referenceIdTag", "imCubeIdTag", "settings",
       "extraReflectionTag" >>

\* the properties of seq read one after the other; the first error ends it
RECURSIVE LoadSeq(_, _, _, _)
LoadSeq(self, file, seq, i) ==
    IF i > Len(seq) THEN Res(self, NoErr, None)
    ELSE LET r == cached_property(self, file, seq[i])
         IN IF r.err # NoErr THEN r ELSE LoadSeq(r.self, file, seq, i + 1)

Loaded(self) == {f \in FieldSet : self.cache[f] # NotLoaded}

LoaderNames == {"a"}

CanConstruct == loader.state \in {"none", "deleted"} /\ loader.id < MaxLoaders

Fresh(kind, name) ==
    [NoLoader EXCEPT !.kind = kind, !.name = name, !.id = loader.id + 1]

\* AnalysisResultsLoader.__init__: h5py.File(path) without a mode.  The
\* default mode is 'a' (create when missing) in h5py 2 and 'r' in h5py 3.
LoaderInit(name) ==
    /\ CanConstruct
    /\ \E mode \in {"a", "r"} :
        LET new == Fresh("AnalysisResultsLoader", name)
            opened == [new EXCEPT !.state = "open", !.handle = "open"]
        IN IF dirExists /\ (fs[name].exists \/ mode = "a")
           THEN /\ loader' = opened
                /\ fs' = [fs EXCEPT ![name].exists = TRUE]
                /\ lastOp' = Op("__init__", name, "", NoErr, None)
           ELSE \* self.file is never assigned; the object is left to the collector
                /\ loader' = [new EXCEPT !.state = "failed"]
                /\ fs' = fs
                /\ lastOp' = Op("__init__", name, "", Err("OSError", "unable to open file", name), None)
    /\ UNCHANGED <<dirExists, written>>
    /\ UNCHANGED <<runVars, appVars>>

\* AnalysisResultsLoader.__del__: self.file.close()
LoaderDel ==
    /\ loader.kind = "AnalysisResultsLoader"
    /\ loader.state \in {"open", "failed"}
    /\ IF loader.state = "open"
       THEN /\ loader' = [loader EXCEPT !.state = "deleted", !.handle = "closed",
                                        !.closes = @ + 1]
            /\ lastOp' = Op("__del__", loader.name, "", NoErr, None)
       ELSE /\ loader' = [loader EXCEPT !.state = "deleted"]
            /\ lastOp' = Op("__del__", loader.name, "",
                            Err("AttributeError", "object has no attribute file", "file"), None)
    /\ UNCHANGED <<fs, dirExists, written>>
    /\ UNCHANGED <<runVars, appVars>>

\* PWSAnalysisResults loaded from a file
PWSLoad(name) ==
    /\ CanConstruct
    /\ IF fs[name].exists
       THEN /\ loader' = [Fresh("PWSAnalysisResults", name) EXCEPT
                              !.state = "open", !.handle = "open"]
            /\ lastOp' = Op("load", name, "", NoErr, None)
       ELSE /\ loader' = loader
            /\ lastOp' = Op("load", name, "", Err("OSError", "unable to open file", name), None)
    /\ UNCHANGED <<fs, dirExists, written>>
    /\ UNCHANGED <<runVars, appVars>>

\* PWSAnalysisResults released
PWSDel ==
    /\ loader.kind = "PWSAnalysisResults"
    /\ loader.state = "open"
    /\ loader' = [loader EXCEPT !.state = "deleted", !.handle = "closed", !.closes = @ + 1]
    /\ lastOp' = Op("release", loader.name, "", NoErr, None)
    /\ UNCHANGED <<fs, dirExists, written>>
    /\ UNCHANGED <<runVars, appVars>>

\* one property of the loader is read
Access(f) ==
    /\ loader.state = "open"
    /\ f \in Props(loader.kind)
    /\ f \in Loaded(loader) \/ Cardinality(Loaded(loader)) < MaxLoaded
    /\ LET r == cached_property(loader, fs[loader.name].hf, f)
       IN /\ loader' = r.self
          /\ lastOp' = Op("access", loader.name, f, r.err, r.val)
    /\ UNCHANGED <<fs, dirExists, written>>
    /\ UNCHANGED <<runVars, appVars>>

\* AnalysisResultsLoader.loadAllFromDisk
loadAllFromDisk ==
    /\ loader.state = "open"
    /\ loader.kind = "AnalysisResultsLoader"
    /\ LET r == LoadSeq(loader, fs[loader.name].hf, loadAllList, 1)
       IN /\ loader' = r.self
          /\ lastOp' = Op("loadAllFromDisk", loader.name, "", r.err, None)
    /\ UNCHANGED <<fs, dirExists, written>>
    /\ UNCHANGED <<runVars, appVars>>

\* PWSAnalysisResults.loadAllFromDisk: every name of fields() is read
PWSLoadAll ==
    /\ loader.state = "open"
    /\ loader.kind = "PWSAnalysisResults"
    /\ LET r == LoadSeq(loader, fs[loader.name].hf, fields, 1)
       IN /\ loader' = r.self
          /\ lastOp' = Op("loadAllFromDisk", loader.name, "", r.err, None)
    /\ UNCHANGED <<fs, dirExists, written>>
    /\ UNCHANGED <<runVars, appVars>>

NextLoader ==
    \/ \E rec \in Records : saveAnalysis("a", rec)
    \/ \E name \in LoaderNames : LoaderInit(name)
    \/ \E name \in LoaderNames : PWSLoad(name)
    \/ \E f \in FieldSet : Access(f)
    \/ loadAllFromDisk
    \/ PWSLoadAll
    \/ LoaderDel
    \/ PWSDel

SpecLoader == InitStore /\ [][NextLoader]_vars

----------------------------------------------------------------------------
(* The pipeline alone *)

\* the properties read on the record run returned
RecordFields == {"rms", "ld", "opd"}

\* PWSAnalysisResults.create returns cls(None, d): a record without a file,
\* whose properties are answered from d
RecordOf(r, id) ==
    [NoLoader EXCEPT !.state = "open", !.kind = "PWSAnalysisResults",
                     !.handle = "None", !.id = id, !.dict = r.results]

\* the loop of the record's toHDF over the keys its dictionary holds
RECURSIVE WriteDict(_, _, _)
WriteDict(self, i, hf) ==
    IF i > Len(Fields) THEN [hf |-> hf, err |-> NoErr]
    ELSE IF self[Fields[i]] = Absent THEN WriteDict(self, i + 1, hf)
    ELSE LET r == WriteField(hf, Fields[i], self[Fields[i]])
         IN IF r.err # NoErr THEN r ELSE WriteDict(self, i + 1, r.hf)

\* toHDF of the record a run returned, on the results file of one cell
toHDF(self, file) ==
    IF file.exists
    THEN [file |-> file, err |-> Err("OSError", "already exists", "")]
    ELSE LET r == WriteDict(self, 1, EmptyHf)
         IN [file |-> [exists |-> TRUE, hf |-> r.hf], err |-> r.err]

\* the caller lets go of the record of the run before when it calls run again
ReleaseRecord ==
    /\ loader' = NoLoader
    /\ lastOp' = Op("", "", "", NoErr, None)
    /\ UNCHANGED <<fs, dirExists, written>>

\* one property of the record the last run returned is read
RecordAccess(f) ==
    /\ run.pc = "Packaged"
    /\ LET self == IF loader.state = "open" /\ loader.id = nruns
                   THEN loader ELSE RecordOf(run, nruns)
       IN /\ f \in Loaded(self) \/ Cardinality(Loaded(self)) < MaxLoaded
          /\ LET r == cached_property(self, EmptyHf, f)
             IN /\ loader' = r.self
                /\ lastOp' = Op("access", "", f, r.err, r.val)
    /\ UNCHANGED <<fs, dirExists, written>>
    /\ UNCHANGED <<runVars, appVars>>

InitRun ==
    /\ fs = [n \in Names |-> NoFile]
    /\ dirExists = FALSE
    /\ written = [n \in Names |-> NoRecord]
    /\ loader = NoLoader
    /\ lastOp = Op("", "", "", NoErr, None)
    /\ an = NoAnalysis
    /\ ref \in {RawCube(0, RefLen, corrected) : corrected \in BOOLEAN}
    /\ \E nidx \in [CubeIds -> {RefLen - 1, RefLen}], corrected \in [CubeIds -> BOOLEAN] :
          cubes = [c \in CubeIds |-> RawCube(c, nidx[c], corrected[c])]
    /\ run = IdleRun
    /\ nruns = 0
    /\ IdleAppVars

NextRun ==
    \/ \E class \in {"PWSAnalysis", "Analysis"}, settings \in SettingsSet,
          erMeta \in {"None", "er1"} :
            Construct(class, settings, erMeta) /\ UNCHANGED appVars
    \/ \E c \in CubeIds : Run(c) /\ ReleaseRecord /\ UNCHANGED appVars
    \/ Normalize /\ UNCHANGED <<storeVars, appVars>>
    \/ Filter /\ UNCHANGED <<storeVars, appVars>>
    \/ RangeSelect /\ UNCHANGED <<storeVars, appVars>>
    \/ DomainConvert /\ UNCHANGED <<storeVars, appVars>>
    \/ Detrend /\ UNCHANGED <<storeVars, appVars>>
    \/ ComputeStatistics /\ UNCHANGED <<storeVars, appVars>>
    \/ Package /\ UNCHANGED <<storeVars, appVars>>
    \/ \E f \in RecordFields : RecordAccess(f)

SpecRun == InitRun /\ [][NextRun]_vars

----------------------------------------------------------------------------
(* Settings and their dictionary and JSON forms *)

\* dataclass PWSAnalysisSettings: the fields in declaration order
SettingFields ==
    << "filterOrder", "filterCutoff", "polynomialOrder", "extraReflectanceId",
       "referenceMaterial", "wavelengthStart", "wavelengthStop", "skipAdvanced",
       "autoCorrStopIndex", "autoCorrMinSub", "numericalAperture", "relativeUnits",
       "cameraCorrection" >>

SettingFieldSet == {SettingFields[i] : i \in 1..Len(SettingFields)}

\* the keys _fromDict fills in when a document lacks them
LegacyKeys == {"relativeUnits", "extraReflectanceId", "cameraCorrection"}

\* the settings objects: the four fields the conversions treat specially
\* vary, every other field holds a number or a boolean of its own
PWSAnalysisSettings ==
    {[k \in SettingFieldSet |->
        CASE k = "referenceMaterial" -> m
          [] k = "cameraCorrection" -> cc
          [] k = "relativeUnits" -> ru
          [] k = "extraReflectanceId" -> er
          [] OTHER -> V("number", k, 0)] :
        m \in {None, V("Material", "Water", 0)},
        cc \in {None, V("CameraCorrection", "cc", 0)},
        ru \in {V("bool", "True", 0), V("bool", "False", 0)},
        er \in {None, V("str", "er1", 0)}}

\* dataclasses.asdict on one field value: a value that is itself a dataclass
\* becomes a dict of its fields, any other value is copied
asdict(v, isDataclass) ==
    IF v.t = "CameraCorrection" /\ isDataclass THEN [v EXCEPT !.t = "dict"] ELSE v

\* PWSAnalysisSettings._asDict; isDataclass: CameraCorrection is a dataclass
_asDict(self, isDataclass) ==
    [k \in SettingFieldSet |->
        IF k = "referenceMaterial"
        THEN IF self[k] = None THEN None ELSE V("str", self[k].f, 0)
        ELSE asdict(self[k], isDataclass)]

\* cls(**d): the constructor of a class with the fields fieldSet, called
\* with the keys of d as keyword arguments
cls(fieldSet, d) ==
    IF DOMAIN d \ fieldSet # {}
    THEN [err |-> Err("TypeError", "unexpected keyword argument", ""), out |-> <<>>]
    ELSE IF fieldSet \ DOMAIN d # {}
    THEN [err |-> Err("TypeError", "missing required positional argument", ""),
          out |-> <<>>]
    ELSE [err |-> NoErr, out |-> d]

\* A variant the claims must notice: absent keys are not filled in.
_fromDict_noDefaults(d) ==
    IF "referenceMaterial" \notin DOMAIN d
    THEN [err |-> Err("KeyError", "referenceMaterial", ""), out |-> <<>>]
    ELSE cls(SettingFieldSet,
             IF d["referenceMaterial"] # None
             THEN [d EXCEPT !["referenceMaterial"] = V("Material", @.f, 0)] ELSE d)

\* PWSAnalysisSettings._fromDict
_fromDict(d) ==
    IF "referenceMaterial" \notin DOMAIN d
    THEN [err |-> Err("KeyError", "referenceMaterial", ""), out |-> <<>>]
    ELSE LET d1 == IF d["referenceMaterial"] # None
                   THEN [d EXCEPT !["referenceMaterial"] = V("Material", @.f, 0)]
                   ELSE d
             d2 == [k \in DOMAIN d1 \cup LegacyKeys |->
                       IF k \in DOMAIN d1 THEN d1[k] ELSE None]
         IN cls(SettingFieldSet, d2)

\* json.dumps: a dict of strings, numbers, booleans, None and dicts becomes
\* text; any other value is not JSON serializable
json_dumps(d) ==
    IF \E k \in DOMAIN d : d[k].t \in {"CameraCorrection", "Material"}
    THEN [err |-> Err("TypeError", "Object is not JSON serializable", ""),
          out |-> <<>>]
    ELSE [err |-> NoErr, out |-> [json |-> d]]

\* json.loads: the dict the text denotes
json_loads(text) == text.json

\* toJsonString of the settings base class
PWS_toJsonString(self, isDataclass) == json_dumps(_asDict(self, isDataclass))

\* fromJsonString of the settings base class
PWS_fromJsonString(text) == _fromDict(json_loads(text))

\* keys a document may hold that are no settings fields
UnknownKeys == {"comment"}

\* the document base without the keys drop and with the keys extra
Document(base, drop, extra) ==
    [k \in (DOMAIN base \ drop) \cup extra |->
        IF k \in extra THEN V("str", k, 0) ELSE base[k]]

\* sets of keys a stored document may lack
Drops == SUBSET LegacyKeys \cup {{"referenceMaterial"}, {"filterOrder"}}

\* the documents on disk: written by _asDict of this or an earlier version
\* of the program, possibly annotated with other keys
Documents ==
    {Document(_asDict(s, TRUE), drop, extra) :
        s \in PWSAnalysisSettings, drop \in Drops, extra \in SUBSET UnknownKeys}

\* NamedTuple AnalysisSettings of the earlier pipeline
AnalysisSettingFields ==
    << "filterOrder", "filterCutoff", "polynomialOrder", "rInternalSubtractionPath",
       "referenceMaterial", "wavelengthStart", "wavelengthStop", "useHannWindow",
       "autoCorrStopIndex", "hardwareCorrection" >>

AnalysisSettingFieldSet ==
    {AnalysisSettingFields[i] : i \in 1..Len(AnalysisSettingFields)}

AnalysisSettings ==
    {[k \in AnalysisSettingFieldSet |->
        CASE k = "referenceMaterial" -> V("str", "Water", 0)
          [] k = "hardwareCorrection" -> hc
          [] OTHER -> V("number", k, 0)] :
        hc \in {None, V("CameraCorrection", "cc", 0)}}

\* the documents of the earlier pipeline: the fields as JSON values
AnalysisDocuments ==
    {Document([s EXCEPT !["hardwareCorrection"] = asdict(@, TRUE)], drop, extra) :
        s \in AnalysisSettings, drop \in {{}, {"useHannWindow"}},
        extra \in SUBSET UnknownKeys}

\* AnalysisSettings.fromJson
fromJson(d) == cls(AnalysisSettingFieldSet, d)

\* AnalysisSettings.toJson: dict(self) takes the ten fields of the tuple as
\* key/value pairs, which they are not
toJson(self) ==
    [err |-> Err("TypeError", "cannot convert dictionary update sequence element", ""),
     out |-> <<>>]

\* one call of a conversion and its outcome
Call(op, in, self, r) ==
    [op |-> op, in |-> in, self |-> self, out |-> r.out, err |-> r.err]

AsDict(s, isDataclass) ==
    /\ st' = Call("_asDict", s, s, [err |-> NoErr, out |-> _asDict(s, isDataclass)])
    /\ UNCHANGED <<storeVars, runVars, batch, mgr>>

FromDict(d) ==
    /\ st' = Call("_fromDict", d, <<>>, _fromDict(d))
    /\ UNCHANGED <<storeVars, runVars, batch, mgr>>

ToJsonString(s, isDataclass) ==
    /\ st' = Call("toJsonString", s, s, PWS_toJsonString(s, isDataclass))
    /\ UNCHANGED <<storeVars, runVars, batch, mgr>>

\* s.toJsonString() read back with fromJsonString
RoundTrip(s, isDataclass) ==
    LET text == PWS_toJsonString(s, isDataclass)
    IN /\ st' = Call("roundTrip", s, s,
                     IF text.err # NoErr THEN text ELSE PWS_fromJsonString(text.out))
       /\ UNCHANGED <<storeVars, runVars, batch, mgr>>

FromJson(d) ==
    /\ st' = Call("fromJson", d, <<>>, fromJson(d))
    /\ UNCHANGED <<storeVars, runVars, batch, mgr>>

ToJson(s) ==
    /\ st' = Call("toJson", s, s, toJson(s))
    /\ UNCHANGED <<storeVars, runVars, batch, mgr>>

InitSettings == InitStore

NextSettings ==
    \/ \E s \in PWSAnalysisSettings, dc \in BOOLEAN : AsDict(s, dc)
    \/ \E d \in Documents : FromDict(d)
    \/ \E s \in PWSAnalysisSettings, dc \in BOOLEAN : ToJsonString(s, dc)
    \/ \E s \in PWSAnalysisSettings, dc \in BOOLEAN : RoundTrip(s, dc)
    \/ \E d \in AnalysisDocuments : FromJson(d)
    \/ \E s \in AnalysisSettings : ToJson(s)

SpecSettings == InitSettings /\ [][NextSettings]_vars

----------------------------------------------------------------------------
(* The batch of the analysis manager.  The model follows NCubes cells of   *)
(* the batch; run holds the locals of the worker that is scheduled, and    *)
(* batch.parked those of the workers that are not.                         *)

\* loadAndProcess(..., maxProcesses=3)
maxProcesses == 3

\* the settings the batches are run with
BatchSettings ==
    {s \in SettingsSet : s.referenceMaterial = "Water" /\ s.window = "inside"}

InProgress(c) == batch.phase[c] \in {"corrected", "running"}

\* workers are alive: the batch runs, or one worker has failed and the
\* others of a parallel batch have not been stopped
Working == batch.state \in {"running", "failed"}

\* the scheduled worker is inside analysis.run
InRun == Working /\ batch.cur # 0 /\ batch.phase[batch.cur] = "running"

\* errorOccurred.emit(e): the signal carries the exception and no cell
Signal(e) == [e |-> e, cell |-> 0]

\* an exception leaves _process of cell c: the thread's except clause emits
\* the first one; a sequential batch does not reach the cells still queued
Raised(c, e) ==
    [batch EXCEPT
        !.state = "failed",
        !.emitted = IF batch.state = "running" THEN Append(@, Signal(e)) ELSE @,
        !.phase = [d \in CubeIds |->
                      IF d = c THEN "failed"
                      ELSE IF ~batch.parallel /\ @[d] = "queued" THEN "cancelled"
                      ELSE @[d]]]

\* runSingle from the construction of the analysis on: the copy of the
\* reference and extra reflection data to shared memory, the thread started
StartBatch(parallel) ==
    /\ an.class = "PWSAnalysis"
    /\ batch.state = "idle"
    /\ batch' = IF parallel /\ ~an.extraReflection.present
                THEN [batch EXCEPT !.state = "aborted"]
                ELSE [batch EXCEPT !.state = "running", !.parallel = parallel,
                                   !.phase = [c \in CubeIds |-> "queued"]]
    /\ UNCHANGED <<storeVars, runVars, st, mgr>>

\* a worker takes cell c: _process up to the camera correction
Process(c) ==
    /\ Working
    /\ batch.phase[c] = "queued"
    /\ IF batch.parallel
       THEN Cardinality({d \in CubeIds : InProgress(d)}) < maxProcesses
       ELSE /\ batch.state = "running"
            /\ \A d \in CubeIds : ~InProgress(d) /\ (batch.phase[d] = "queued" => c <= d)
    /\ cubes' = [cubes EXCEPT ![c] = correctCameraEffects(@)]
    /\ run' = IdleRun
    /\ batch' = [batch EXCEPT
                    !.cur = c,
                    !.parked = IF batch.cur = 0 THEN @ ELSE [@ EXCEPT ![batch.cur] = run],
                    !.phase[c] = "corrected"]
    /\ UNCHANGED <<an, ref, nruns, storeVars, st, mgr>>

\* the worker of cell c is scheduled instead of the one running
Switch(c) ==
    /\ Working
    /\ batch.parallel
    /\ batch.cur # 0
    /\ c # batch.cur
    /\ InProgress(c)
    /\ run' = batch.parked[c]
    /\ batch' = [batch EXCEPT !.cur = c, !.parked[batch.cur] = run]
    /\ UNCHANGED <<an, ref, cubes, nruns, storeVars, st, mgr>>

\* results, warnings = analysis.run(im)
CallRun ==
    /\ Working
    /\ batch.cur # 0
    /\ batch.phase[batch.cur] = "corrected"
    /\ Run(batch.cur)
    /\ batch' = [batch EXCEPT !.phase[batch.cur] = "running"]
    /\ UNCHANGED <<storeVars, st, mgr>>

\* analysis.run raised: _process has no handler
Raise ==
    /\ InRun
    /\ run.pc = "Failed"
    /\ batch' = Raised(batch.cur, run.err)
    /\ UNCHANGED <<storeVars, runVars, st, mgr>>

\* the rest of _process: md, saveAnalysis, return
Save ==
    /\ InRun
    /\ run.pc = "Packaged"
    /\ LET c == batch.cur
           w == toHDF(run.results, batch.files[c])
       IN batch' = IF w.err # NoErr THEN Raised(c, w.err)
                   ELSE [batch EXCEPT
                            !.files[c] = w.file,
                            !.out[c] = [results |-> run.results, data |-> run.cube.data,
                                        warns |-> run.warns,
                                        md |-> IF run.warns # {} THEN c ELSE 0],
                            !.phase[c] = "saved"]
    /\ UNCHANGED <<storeVars, runVars, st, mgr>>

\* the workers of a parallel batch are stopped after the exception
Cancel ==
    /\ batch.state = "failed"
    /\ batch.parallel
    /\ \E c \in CubeIds : batch.phase[c] \in {"queued", "corrected", "running"}
    /\ batch' = [batch EXCEPT
                    !.phase = [c \in CubeIds |->
                                  IF @[c] \in {"queued", "corrected", "running"}
                                  THEN "cancelled" ELSE @[c]]]
    /\ UNCHANGED <<storeVars, runVars, st, mgr>>

\* loadAndProcess returns the list: self.warnings is assigned
Finish ==
    /\ batch.state = "running"
    /\ \A c \in CubeIds : batch.phase[c] = "saved"
    /\ batch' = [batch EXCEPT
                    !.state = "finished",
                    !.warnings = [isNone |-> FALSE,
                                  list |-> {<<batch.out[c].warns, batch.out[c].md>> :
                                               c \in CubeIds}]]
    /\ UNCHANGED <<storeVars, runVars, st, mgr>>

\* runSingle after the thread has ended: the warnings of the thread are
\* filtered for the cells that have any and given to analysisDone; a list
\* that is still None cannot be iterated
Report ==
    /\ batch.state \in {"finished", "failed"}
    /\ \A c \in CubeIds : batch.phase[c] \in {"saved", "failed", "cancelled"}
    /\ ~batch.report.made
    /\ batch' = [batch EXCEPT
                    !.report =
                        IF batch.warnings.isNone
                        THEN [made |-> TRUE,
                              err |-> Err("TypeError", "'NoneType' object is not iterable", ""),
                              done |-> {}]
                        ELSE [made |-> TRUE, err |-> NoErr,
                              done |-> {w \in batch.warnings.list : w[2] # 0}]]
    /\ UNCHANGED <<storeVars, runVars, st, mgr>>

\* the cells as their metadata describes them: loaded by loadAndProcess, not
\* yet corrected; the reference loaded and corrected by runSingle
InitBatch ==
    /\ fs = [n \in Names |-> NoFile]
    /\ dirExists = FALSE
    /\ written = [n \in Names |-> NoRecord]
    /\ loader = NoLoader
    /\ lastOp = Op("", "", "", NoErr, None)
    /\ an = NoAnalysis
    /\ ref = RawCube(0, RefLen, TRUE)
    /\ \E nidx \in [CubeIds -> {RefLen - 1, RefLen}] :
          cubes = [c \in CubeIds |-> RawCube(c, nidx[c], FALSE)]
    /\ run = IdleRun
    /\ nruns = 0
    /\ IdleAppVars

NextBatch ==
    \/ \E settings \in BatchSettings, erMeta \in {"None", "er1"} :
          Construct("PWSAnalysis", settings, erMeta) /\ UNCHANGED appVars
    \/ \E parallel \in BOOLEAN : StartBatch(parallel)
    \/ \E c \in CubeIds : Process(c)
    \/ \E c \in CubeIds : Switch(c)
    \/ CallRun
    \/ InRun /\ Normalize /\ UNCHANGED <<storeVars, appVars>>
    \/ InRun /\ Filter /\ UNCHANGED <<storeVars, appVars>>
    \/ InRun /\ RangeSelect /\ UNCHANGED <<storeVars, appVars>>
    \/ InRun /\ DomainConvert /\ UNCHANGED <<storeVars, appVars>>
    \/ InRun /\ Detrend /\ UNCHANGED <<storeVars, appVars>>
    \/ InRun /\ ComputeStatistics /\ UNCHANGED <<storeVars, appVars>>
    \/ InRun /\ Package /\ UNCHANGED <<storeVars, appVars>>
    \/ Raise
    \/ Save
    \/ Cancel
    \/ Finish
    \/ Report

SpecBatch == InitBatch /\ [][NextBatch]_vars

----------------------------------------------------------------------------
(* File names of results.  A string is the sequence of its characters; the *)
(* sixteen characters 'analysisResults_' are written as the one symbol "M" *)
(* (no character sequence of a name can complete or begin them across a   *)
(* boundary, as the text has no border).                                   *)

MaxNameLen == 3

NameChars == {"x", "y", "M"}

\* the analysis names of at most MaxNameLen symbols
NameStrings == UNION {[1..n -> NameChars] : n \in 0..MaxNameLen}

\* f'analysisResults_{name}.h5'
name2FileName(name) == <<"M">> \o name \o <<".", "h", "5">>

\* the text of s up to the first separator
RECURSIVE FirstPiece(_, _)
FirstPiece(s, sep) ==
    IF s = <<>> \/ Head(s) = sep THEN <<>>
    ELSE <<Head(s)>> \o FirstPiece(Tail(s), sep)

\* str.split(sep): the pieces of s between the separators
RECURSIVE split(_, _)
split(s, sep) ==
    LET p == FirstPiece(s, sep)
    IN IF Len(p) = Len(s) THEN <<p>>
       ELSE <<p>> \o split(SubSeq(s, Len(p) + 2, Len(s)), sep)

\* fileName.split('analysisResults_')[1][:-3]
fileName2Name(fileName) ==
    LET pieces == split(fileName, "M")
    IN IF Len(pieces) < 2
       THEN [err |-> Err("IndexError", "list index out of range", ""), out |-> <<>>]
       ELSE [err |-> NoErr, out |-> SubSeq(pieces[2], 1, Len(pieces[2]) - 3)]

Name2FileName(name) ==
    /\ st' = Call("name2FileName", name, <<>>, [err |-> NoErr, out |-> name2FileName(name)])
    /\ UNCHANGED <<storeVars, runVars, batch, mgr>>

\* a file of the listing of an `analyses` directory is mapped to its name
FileName2Name(name) ==
    /\ st' = Call("fileName2Name", name2FileName(name), <<>>,
                  fileName2Name(name2FileName(name)))
    /\ UNCHANGED <<storeVars, runVars, batch, mgr>>

\* a name is saved and the name of its file is read back: st.in the name
ListSaved(name) ==
    /\ st' = Call("listSaved", name, <<>>, fileName2Name(name2FileName(name)))
    /\ UNCHANGED <<storeVars, runVars, batch, mgr>>

InitNames == InitStore

NextNames ==
    \/ \E name \in NameStrings : Name2FileName(name)
    \/ \E name \in NameStrings : FileName2Name(name)
    \/ \E name \in NameStrings : ListSaved(name)

SpecNames == InitNames /\ [][NextNames]_vars

----------------------------------------------------------------------------
(* The polynomial fit of one pixel.  Spectra are sequences of integers over *)
(* the wavenumbers 1..MaxOrder + 2; the spectra fitted are polynomials of   *)
(* degree at most the order, for which least squares has residual zero.     *)

MaxOrder == 2

CoefMax == 2

Coefs == -1..CoefMax

\* cube.wavenumbers
wavenumbers == [j \in 1..MaxOrder + 2 |-> j]

RECURSIVE Pow(_, _)
Pow(x, i) == IF i = 0 THEN 1 ELSE x * Pow(x, i - 1)

\* sum of term[i] for i in lo..hi
RECURSIVE Sum(_, _, _)
Sum(term, lo, hi) == IF lo > hi THEN 0 ELSE term[lo] + Sum(term, lo + 1, hi)

\* the spectrum of the polynomial with the coefficient a[i] of x^i
Spectrum(a, order) ==
    [j \in 1..Len(wavenumbers) |->
        Sum([i \in 0..order |-> a[i] * Pow(wavenumbers[j], i)], 0, order)]

\* np.polyfit(x, y, order) for a spectrum a polynomial of the order fits: the
\* least-squares coefficients, the one of the highest power first
np_polyfit(x, y, order) ==
    LET c == CHOOSE c \in [0..order -> Coefs] :
                \A j \in 1..Len(x) :
                    Sum([i \in 0..order |-> c[i] * Pow(x[j], i)], 0, order) = y[j]
    IN [j \in 1..order + 1 |-> c[order - (j - 1)]]

\* the row of polydata the loop of _fitPolynomial takes for x^i (rows from 1):
\* polydata[order - i, :] in PWSAnalysis, polydata[i, :] in Analysis
CoefRow(class, order, i) == IF class = "PWSAnalysis" THEN order - i + 1 ELSE i + 1

\* _fitPolynomial: the values of the fit at the wavenumbers
fitPolynomial(class, x, y, order) ==
    LET polydata == np_polyfit(x, y, order)
    IN [j \in 1..Len(x) |->
          Sum([i \in 0..order |-> Pow(x[j], i) * polydata[CoefRow(class, order, i)]],
              0, order)]

\* cube.data - cubePoly
detrend(y, cubePoly) == [j \in 1..Len(y) |-> y[j] - cubePoly[j]]

\* _fitPolynomial and the subtraction, on the spectrum of the polynomial a
FitPolynomial(class, order, a) ==
    LET y == Spectrum(a, order)
        cubePoly == fitPolynomial(class, wavenumbers, y, order)
    IN /\ st.op = ""
       /\ st' = [op |-> "_fitPolynomial",
                 in |-> [class |-> class, order |-> order, data |-> y],
                 self |-> cubePoly, out |-> detrend(y, cubePoly), err |-> NoErr]
       /\ UNCHANGED <<storeVars, runVars, batch, mgr>>

InitFit == InitStore

NextFit ==
    \E class \in {"PWSAnalysis", "Analysis"}, order \in 0..MaxOrder :
        \E a \in [0..order -> Coefs] : FitPolynomial(class, order, a)

SpecFit == InitFit /\ [][NextFit]_vars

----------------------------------------------------------------------------
(* Ld.  A float is finite (sign, numerator, denominator, and whether it is *)
(* multiplied by the positive constant (A2 / A1) * fact), infinite or NaN; *)
(* a zero has a sign.                                                       *)

NPix == 2

Float(kind, sign, n, d) == [kind |-> kind, sign |-> sign, n |-> n, d |-> d, c |-> 0]

NaN == Float("nan", 1, 0, 1)

Num(i) == Float("fin", IF i < 0 THEN -1 ELSE 1, IF i < 0 THEN -i ELSE i, 1)

\* -1 * x
fneg(x) == IF x.kind = "nan" THEN x ELSE [x EXCEPT !.sign = -@]

\* a / b in numpy: a division by zero warns and gives an infinity, or NaN
\* for 0 / 0
fdiv(a, b) ==
    IF a.kind = "nan" \/ b.kind = "nan" THEN NaN
    ELSE IF b.n = 0
    THEN IF a.n = 0 THEN NaN ELSE Float("inf", a.sign * b.sign, 0, 1)
    ELSE Float("fin", a.sign * b.sign, a.n * b.d, a.d * b.n)

\* ((A2 / A1) * fact) * x, with A1 = 0.008, A2 = 4, fact = 1.38 * 1.38 / 2 / k / k
\* and k = 2 * np.pi / 0.55: a positive constant
LdFactor(x) == IF x.kind = "fin" THEN [x EXCEPT !.c = 1] ELSE x

RECURSIVE Prod(_)
Prod(shape) == IF shape = <<>> THEN 1 ELSE Head(shape) * Prod(Tail(shape))

\* the shapes of an array of NPix pixels, and one of another size
PixShapes == {<<1, NPix>>, <<NPix, 1>>}

SlopeShapes == PixShapes \cup {<<1, NPix + 1>>}

RmsValues == {Num(0), Num(1)}

SlopeValues == {Num(-1), Num(0), Num(1), NaN}

\* slope.reshape(rms.shape): the same data under the other shape, when the
\* sizes agree
reshape(a, shape) ==
    IF Prod(a.shape) # Prod(shape)
    THEN [err |-> Err("ValueError", "cannot reshape array", ""), out |-> a]
    ELSE [err |-> NoErr, out |-> [a EXCEPT !.shape = shape]]

\* _calculateLd(rms, slope); PWSAnalysis asserts equal shapes first
calculateLd(class, rms, slope) ==
    IF class = "PWSAnalysis" /\ rms.shape # slope.shape
    THEN [err |-> Err("AssertionError", "", ""), out |-> <<>>]
    ELSE LET s == reshape(slope, rms.shape)
         IN IF s.err # NoErr THEN [err |-> s.err, out |-> <<>>]
            ELSE [err |-> NoErr,
                  out |-> [p \in 1..Len(rms.data) |->
                              LdFactor(fdiv(rms.data[p], fneg(s.out.data[p])))]]

CalculateLd(class, rms, slope) ==
    /\ st.op = ""
    /\ LET r == calculateLd(class, rms, slope)
       IN st' = [op |-> "_calculateLd",
                 in |-> [class |-> class, rms |-> rms, slope |-> slope],
                 self |-> <<>>, out |-> r.out, err |-> r.err]
    /\ UNCHANGED <<storeVars, runVars, batch, mgr>>

InitLd == InitStore

NextLd ==
    \E class \in {"PWSAnalysis", "Analysis"}, rshape \in PixShapes, sshape \in SlopeShapes :
        \E rdata \in [1..NPix -> RmsValues], sdata \in [1..Prod(sshape) -> SlopeValues] :
            CalculateLd(class, [shape |-> rshape, data |-> rdata],
                        [shape |-> sshape, data |-> sdata])

SpecLd == InitLd /\ [][NextLd]_vars

----------------------------------------------------------------------------
(* The analysis manager: runList over the listed analyses, runSingle up to *)
(* the thread and after it.  The thread is taken as one step here.         *)

maxSequential == 3

NCells == 4

MaxListed == 2

CellIds == 1..NCells

\* the sizes of the batches: one for which parallel processing is refused
\* and one larger
CellCounts == {maxSequential, NCells}

\* the analysis names the user gives; the second reads like a file name
AnNames == {<<"x">>, name2FileName(<<"x">>)}

AnFileNames == {name2FileName(n) : n \in AnNames}

NoItem == [anName |-> <<>>, ncells |-> 0, corr |-> "", er |-> ""]

\* the data of a cube as numpy holds it
Array(dtype) == [dtype |-> dtype, vals |-> "v", shared |-> FALSE]

NoArray == [dtype |-> "", vals |-> "", shared |-> FALSE]

\* RawArray('f', size), np.frombuffer(.., dtype=np.float32), np.copyto: the
\* values are cast to single precision
toRawArray(a) ==
    [dtype |-> "float32", shared |-> TRUE,
     vals |-> IF a.dtype = "float32" THEN a.vals ELSE "float32(v)"]

\* Analysis(anSettings, ref, erCube): the data the analysis holds, which the
\* cube classes keep in single precision
NewAnalysis(er) ==
    [ref |-> Array("float32"),
     extraReflection |-> IF er = "None" THEN None ELSE Array("float32")]

\* PWSAnalysis.copySharedDataToSharedMemory
copySharedDataToSharedMemory(self) ==
    [err |-> NoErr,
     self |-> [ref |-> toRawArray(self.ref),
               extraReflection |-> IF self.extraReflection # None
                                   THEN toRawArray(self.extraReflection)
                                   ELSE self.extraReflection]]

\* runSingle: the copy written out in place, the extra reflection not tested
copyInPlace(self) ==
    IF self.extraReflection = None
    THEN [err |-> Err("AttributeError", "'NoneType' object has no attribute 'data'", ""),
          self |-> [self EXCEPT !.ref = toRawArray(@)]]
    ELSE [err |-> NoErr,
          self |-> [ref |-> toRawArray(self.ref),
                    extraReflection |-> toRawArray(self.extraReflection)]]

\* ICMetaData.getAnalyses of cell c: the names of the files in `analyses`
getAnalyses(dirs, c) == dirs[c]

\* removeAnalysis of cell c: the results file of that name is deleted
removeAnalysis(dirs, c, anName) == [dirs EXCEPT ![c] = @ \ {name2FileName(anName)}]

\* safeCallback: what leaves runSingle, the value returned is dropped and an
\* exception is printed
Return(m, ret, exc) == [m EXCEPT !.pc = "returned", !.ret = ret, !.exc = exc]

\* runSingle from the construction of the analysis to the start of the thread
StartThread(m) ==
    LET analysis == NewAnalysis(m.item.er)
        useParallelProcessing ==
            IF m.item.ncells <= maxSequential THEN FALSE ELSE m.parallelProcessing
        copied == copyInPlace(analysis)
    IN IF ~useParallelProcessing
       THEN [m EXCEPT !.pc = "thread", !.analysis = analysis, !.parallel = FALSE]
       ELSE IF copied.err # NoErr
       THEN Return([m EXCEPT !.analysis = copied.self, !.parallel = TRUE], "None", copied.err)
       ELSE [m EXCEPT !.pc = "thread", !.analysis = copied.self, !.parallel = TRUE]

\* runSingle after the conflict check: the camera corrections, the system
\* of the extra reflection
Corrections(m) ==
    IF m.item.corr = "autoInconsistent" THEN Return(m, "None", NoErr)
    ELSE IF m.item.er = "other" THEN [m EXCEPT !.pc = "mismatchDialog"]
    ELSE StartThread(m)

\* the user presses the button: the state of the disk and of the list then
RunList(n, parallelProcessing, k, saved) ==
    /\ mgr.pc = "none"
    /\ k = 0 <=> saved = {}
    /\ mgr' = [pc |-> "loop", listed |-> [i \in 1..n |-> i],
               parallelProcessing |-> parallelProcessing,
               dirs |-> [c \in CellIds |-> IF c <= k THEN saved ELSE {}],
               item |-> NoItem, conflictCells |-> {}, answer |-> "",
               analysis |-> [ref |-> NoArray, extraReflection |-> None],
               parallel |-> FALSE,
               warnings |-> [isNone |-> TRUE, list |-> {}],
               errorOccurred |-> NoErr, met |-> {},
               emits |-> 0, ret |-> "", exc |-> NoErr]
    /\ UNCHANGED <<storeVars, runVars, st, batch>>

\* runList calls runSingle for the next listed analysis: the conflict check
RunSingle(anName, ncells, corr, er) ==
    /\ mgr.pc = "loop"
    /\ LET conflictCells == {c \in 1..ncells : anName \in getAnalyses(mgr.dirs, c)}
           m == [mgr EXCEPT
                    !.item = [anName |-> anName, ncells |-> ncells, corr |-> corr, er |-> er],
                    !.conflictCells = conflictCells, !.answer = "",
                    !.analysis = [ref |-> NoArray, extraReflection |-> None],
                    !.parallel = FALSE,
                    !.warnings = [isNone |-> TRUE, list |-> {}],
                    !.errorOccurred = NoErr, !.met = {},
                    !.emits = 0, !.ret = "", !.exc = NoErr]
       IN mgr' = IF conflictCells # {} THEN [m EXCEPT !.pc = "conflictDialog"]
                 ELSE Corrections(m)
    /\ UNCHANGED <<storeVars, runVars, st, batch>>

\* the answer to "Do you want to delete existing analyses and continue?"
AnswerConflict(yes) ==
    /\ mgr.pc = "conflictDialog"
    /\ mgr' = IF yes
              THEN Corrections([mgr EXCEPT
                      !.answer = "Yes",
                      !.dirs = [c \in CellIds |->
                                   IF c \in mgr.conflictCells
                                   THEN removeAnalysis(mgr.dirs, c, mgr.item.anName)[c]
                                   ELSE mgr.dirs[c]]])
              ELSE Return([mgr EXCEPT !.answer = "No"], "None", NoErr)
    /\ UNCHANGED <<storeVars, runVars, st, batch>>

\* the answer to "Are you sure you want to continue?"
AnswerMismatch(yes) ==
    /\ mgr.pc = "mismatchDialog"
    /\ mgr' = IF yes THEN StartThread(mgr) ELSE Return(mgr, "None", NoErr)
    /\ UNCHANGED <<storeVars, runVars, st, batch>>

\* loadAndProcess over cells c..n: analysis.run raises at cell fail; each
\* result is saved under the name, which an existing file refuses
RECURSIVE ProcessCells(_, _, _, _, _, _)
ProcessCells(dirs, c, n, anName, fail, met) ==
    IF c > n THEN [dirs |-> dirs, err |-> NoErr, met |-> met]
    ELSE IF c = fail
    THEN [dirs |-> dirs, err |-> Err("ValueError", "run raised", ""), met |-> met]
    ELSE IF name2FileName(anName) \in dirs[c]
    THEN [dirs |-> dirs, err |-> Err("OSError", "already exists", ""), met |-> met \cup {c}]
    ELSE ProcessCells([dirs EXCEPT ![c] = @ \cup {name2FileName(anName)}],
                      c + 1, n, anName, fail, met)

\* AnalysisThread.run
Thread(fail) ==
    /\ mgr.pc = "thread"
    /\ fail <= mgr.item.ncells
    /\ LET r == ProcessCells(mgr.dirs, 1, mgr.item.ncells, mgr.item.anName, fail, {})
       IN mgr' = [mgr EXCEPT
                     !.pc = "threadDone",
                     !.dirs = r.dirs,
                     !.met = r.met,
                     !.errorOccurred = r.err,
                     !.warnings =
                         IF r.err # NoErr THEN [isNone |-> TRUE, list |-> {}]
                         ELSE [isNone |-> FALSE,
                               list |-> IF mgr.item.er = "None"
                                        THEN 1..mgr.item.ncells ELSE {}]]
    /\ UNCHANGED <<storeVars, runVars, st, batch>>

\* runSingle after b.exec(): the warnings of the thread, analysisDone
Emit ==
    /\ mgr.pc = "threadDone"
    /\ mgr' = IF mgr.warnings.isNone
              THEN Return(mgr, "None",
                          Err("TypeError", "'NoneType' object is not iterable", ""))
              ELSE Return([mgr EXCEPT !.emits = @ + 1], "ret", NoErr)
    /\ UNCHANGED <<storeVars, runVars, st, batch>>

\* runList after runSingle: the cell items refreshed, the item taken off
TakeItem ==
    /\ mgr.pc = "returned"
    /\ mgr' = [mgr EXCEPT !.listed = Tail(@),
                          !.pc = IF Len(mgr.listed) > 1 THEN "loop" ELSE "done"]
    /\ UNCHANGED <<storeVars, runVars, st, batch>>

InitManager == InitStore

NextManager ==
    \/ \E n \in 1..MaxListed, parallelProcessing \in BOOLEAN, k \in 0..NCells,
          saved \in SUBSET AnFileNames :
            RunList(n, parallelProcessing, k, saved)
    \/ \E anName \in AnNames, ncells \in CellCounts,
          corr \in {"user", "auto", "autoInconsistent"}, er \in {"None", "same", "other"} :
            RunSingle(anName, ncells, corr, er)
    \/ \E yes \in BOOLEAN : AnswerConflict(yes)
    \/ \E yes \in BOOLEAN : AnswerMismatch(yes)
    \/ \E fail \in 0..NCells : Thread(fail)
    \/ Emit
    \/ TakeItem

SpecManager == InitManager /\ [][NextManager]_vars

----------------------------------------------------------------------------
(* Claims about writing *)

WriteOps == {"toHDF5", "saveAnalysis"}

\* C1: a write under a name whose results file already exists fails with the
\* already-exists error and leaves that file as it was, after any earlier
\* writes; no step of a write changes a file that exists.
C1_NoOverwrite ==
    [][\A n \in Names :
          fs[n].exists =>
             /\ fs'[n] = fs[n]
             /\ (lastOp'.op \in WriteOps /\ lastOp'.name = n)
                   => lastOp'.err = Err("OSError", "already exists", n)]_vars

C1_Witness ==
    /\ lastOp.op \in WriteOps
    /\ lastOp.err.msg = "already exists"
    /\ fs[lastOp.name].exists
    /\ written[lastOp.name] # NoRecord

\* C6: after a successful write the keys of the file are exactly the fields
\* of the record that are not None, each dataset holding its own field's
\* data; a None field leaves no dataset and no sentinel.
C6_NullFieldsOmitted ==
    (lastOp.op \in WriteOps /\ lastOp.err = NoErr) =>
        \A k \in Keys :
            LET d == fs[lastOp.name].hf[k]
                rec == written[lastOp.name]
            IN /\ (d # Absent) <=> (k \in FieldSet /\ rec[k] # None)
               /\ d # Absent => (d.f = k /\ d.n = rec[k].n)

C6_Witness ==
    /\ lastOp.op \in WriteOps
    /\ lastOp.err = NoErr
    /\ written[lastOp.name]["ld"] = None
    /\ written[lastOp.name]["rms"] # None
    /\ fs[lastOp.name].hf["ld"] = Absent
    /\ fs[lastOp.name].hf["rms"] # Absent

\* C9: when a step of persisting a record fails, no results file, complete
\* or partial, exists under that name afterwards (a refused overwrite
\* aside, where the file is the earlier one).
C9_AllOrNothing ==
    (lastOp.op \in WriteOps /\ lastOp.err # NoErr /\ lastOp.err.msg # "already exists")
        => ~fs[lastOp.name].exists

----------------------------------------------------------------------------
(* Claims about reading *)

TheFile == fs[loader.name].hf

\* C2: a field of a record written by toHDF5 and read back through
\* AnalysisResultsLoader is exactly the value that was written for it.
C2_RoundTrip ==
    (/\ lastOp.op = "access"
     /\ loader.kind = "AnalysisResultsLoader"
     /\ written[loader.name] # NoRecord
     /\ written[loader.name][lastOp.field] # None)
        => /\ lastOp.err = NoErr
           /\ lastOp.val = written[loader.name][lastOp.field]

SourceKey(kind, f) ==
    IF kind = "PWSAnalysisResults" /\ f = "opd" THEN "reflectance" ELSE f

\* C4: reading a field the written file does not hold raises the
\* missing-field error naming that field, not h5py's own KeyError, and the
\* field is not marked loaded.
C4_MissingFieldError ==
    (/\ lastOp.op = "access"
     /\ loader.state = "open"
     /\ written[loader.name] # NoRecord
     /\ TheFile[SourceKey(loader.kind, lastOp.field)] = Absent)
        => /\ lastOp.err = Err("KeyError", "The analysis file does not contain item",
                               lastOp.field)
           /\ loader.cache[lastOp.field] = NotLoaded

\* C5: after loadAllFromDisk has returned on a file that holds every field,
\* every property of the loader is loaded.
C5_LoadAllLoadsAll ==
    (/\ lastOp.op = "loadAllFromDisk"
     /\ lastOp.err = NoErr
     /\ \A f \in FieldSet : TheFile[f] # Absent)
        => \A f \in Props(loader.kind) : loader.cache[f] # NotLoaded

\* C7: the handle is open from construction to disposal, disposal closes it
\* exactly once, and disposing a loader whose construction failed does not
\* raise.
C7_HandleLifetime ==
    /\ loader.state = "open" => loader.handle = "open"
    /\ (loader.state = "deleted" /\ loader.handle # "none") =>
            (loader.handle = "closed" /\ loader.closes = 1)
    /\ lastOp.op = "__del__" => lastOp.err = NoErr

----------------------------------------------------------------------------
(* Claims about the pipeline *)

\* the stages in the order the specification gives them
SpecStages ==
    << "Created", "Normalizing", "Filtering", "RangeSelecting", "DomainConverting",
       "Detrending", "ComputingStatistics", "Packaged" >>

IsPrefix(s, t) == Len(s) <= Len(t) /\ s = SubSeq(t, 1, Len(s))

\* C8: an invocation of run goes through the stages in the specified order,
\* none skipped or repeated, the filter is applied before the range is
\* selected, and it can stop only in Packaged or Failed.
C8_StageOrder ==
    run.pc # "Idle" =>
        /\ run.pc = run.trace[Len(run.trace)]
        /\ \/ IsPrefix(run.trace, SpecStages)
           \/ /\ run.pc = "Failed"
              /\ IsPrefix(SubSeq(run.trace, 1, Len(run.trace) - 1), SpecStages)
              /\ Len(run.trace) <= Len(SpecStages)
        /\ run.pc \notin {"Packaged", "Failed"} => ENABLED (RunStep /\ UNCHANGED storeVars)
        /\ run.pc \in {"Packaged", "Failed"} => ~ENABLED (RunStep /\ UNCHANGED storeVars)
        /\ run.pc = "Packaged" =>
              LET ops == OpsOf(run.cube.data)
              IN Len(ops) >= 4 /\
                 SubSeq(ops, Len(ops) - 3, Len(ops)) =
                    <<"filter", "selIndex", "kspace", "detrend">>

C8_Witness ==
    /\ run.pc = "Packaged"
    /\ run.trace = SpecStages
    /\ nruns = MaxRuns

\* C10: a call of run, at every one of its steps, leaves the reference
\* cube, the extra reflection and the settings as construction left them.
C10_RunLeavesReference ==
    [][(run' # run) => (ref' = ref /\ an' = an)]_vars

\* the last operation read a property of the record the last run returned
OnRecord == lastOp.op = "access" /\ loader.handle = "None" /\ loader.id = nruns

\* C12: the record of a run has None for polynomialRms, autoCorrelationSlope,
\* rSquared and ld exactly when skipAdvanced is set, run computes them only
\* when it is not set, and reading any of them or opd on the record raises
\* nothing and gives None exactly when skipAdvanced is set.
C12_SkipAdvanced ==
    run.pc = "Packaged" =>
        /\ \A f \in StatFields \ {"rms"} :
              /\ run.stats[f] = None <=> an.settings.skipAdvanced
              /\ run.results[f] = run.stats[f]
        /\ (OnRecord /\ lastOp.field \in RecordFields \ {"rms"}) =>
              /\ lastOp.err = NoErr
              /\ lastOp.val = None <=> an.settings.skipAdvanced

\* C13 as stated: the reflectance of the record has the shape of the input
\* cube, spectral length included, and every 2D field that is not None has
\* the input cube's rows and columns.
C13_ShapeOfInput ==
    run.pc = "Packaged" =>
        /\ run.shapes["reflectance"] = Shape(cubes[run.c])
        /\ \A f \in ArrayFields \ {"reflectance"} :
              run.results[f] # None => run.shapes[f] = SubSeq(Shape(cubes[run.c]), 1, 2)

\* C13 amended: the reflectance of the record has the rows and columns of
\* the input cube and the spectral length of the selected wavelength range,
\* which is the input's only when the range holds every index of the cube;
\* every 2D field that is not None has the input cube's rows and columns.
C13_ShapeOfSelection ==
    run.pc = "Packaged" =>
        LET in == Shape(cubes[run.c])
            out == run.shapes["reflectance"]
        IN /\ Len(out) = 3
           /\ SubSeq(out, 1, 2) = SubSeq(in, 1, 2)
           /\ out[3] <= in[3]
           /\ out[3] = in[3] <=> an.settings.window = "whole"
           /\ \A f \in ArrayFields \ {"reflectance"} :
                 run.results[f] # None => run.shapes[f] = SubSeq(in, 1, 2)

C13_Witness ==
    /\ run.pc = "Packaged"
    /\ an.settings.window = "inside"
    /\ ~an.settings.skipAdvanced
    /\ run.shapes["reflectance"] = <<Rows, Cols, RefLen - 1>>
    /\ run.shapes["ld"] = <<Rows, Cols>>

\* C14: when the sample cube and the reference differ in spectral length,
\* the normalization of PWSAnalysis fails with the shape-mismatch error and the sample cube's
\* data is still what it was when run was called.
C14_MismatchBeforeArithmetic ==
    [][(/\ an.class = "PWSAnalysis"
        /\ run.pc = "Created" /\ run' # run
        /\ cubes[run.c].nidx # an.ref.nidx) =>
          /\ run'.pc = "Failed"
          /\ run'.err = Err("ValueError", "shape mismatch", "")
          /\ cubes'[run.c] = cubes[run.c]]_vars

\* C15: on a camera-corrected reference, constructing PWSAnalysis with an
\* extra reflection and no reference material fails with the assertion
\* about the theoretical reflectance and leaves no analysis object;
\* constructing it with neither succeeds and the object carries the
\* "Ignoring reference material" warning.
C15_ConfigurationError ==
    (lastOp.op = "__init__" /\ ref.cameraCorrected /\ lastOp.name = "None") =>
        IF lastOp.field # "None"
        THEN /\ lastOp.err.type = "AssertionError"
             /\ lastOp.err.msg =
                   "Extra reflectance calibration relies on theoretical reflectance"
             /\ an.class = "none"
        ELSE /\ lastOp.err = NoErr
             /\ an.class = "PWSAnalysis"
             /\ an.settings.referenceMaterial = "None"
             /\ ~an.extraReflection.present
             /\ "Ignoring reference material" \in an.initWarnings

C15_Witness ==
    /\ lastOp.op = "__init__"
    /\ lastOp.name = "None"
    /\ lastOp.field = "er1"
    /\ lastOp.err.type = "AssertionError"
    /\ ref.cameraCorrected
    /\ an.class = "none"

\* the operations a step appended to a cube
NewOps(before, after) ==
    SubSeq(OpsOf(after.data), Len(before.data) + 1, Len(after.data))

Positions(ops, op) == {i \in 1..Len(ops) : ops[i] = op}

CrossCubeOps == {"extraReflection", "reference"}

\* in ops the exposure normalization comes before every cross-cube
\* operation, and no extra reflection is subtracted after the division by
\* the reference
CorrectionOrder(ops) ==
    /\ \A i \in 1..Len(ops) :
          ops[i] \in CrossCubeOps => \E j \in 1..(i - 1) : ops[j] = "exposure"
    /\ \A i \in Positions(ops, "reference"), j \in Positions(ops, "extraReflection") : j < i

\* C11: the normalization of a run appends to the sample cube the exposure
\* normalization, then the extra-reflection subtraction when there is an
\* extra reflection, then the division by the reference, which is the last;
\* the reference that divides, and the reference the analysis stores, were
\* exposure-normalized before any cross-cube operation.
C11_CorrectionOrder ==
    [][(run.pc = "Created" /\ run'.pc \in {"Normalizing", "Failed"}) =>
          LET new == NewOps(cubes[run.c], cubes'[run.c])
          IN /\ CorrectionOrder(new)
             /\ run'.pc = "Normalizing" =>
                   /\ new[Len(new)] = "reference"
                   /\ Positions(new, "exposure") # {}
                   /\ an.extraReflection.present <=> Positions(new, "extraReflection") # {}
                   /\ LET operand == cubes'[run.c].data[Len(cubes'[run.c].data)].arg
                      IN /\ CorrectionOrder(operand)
                         /\ Positions(operand, "exposure") # {}
             /\ an.class = "PWSAnalysis" =>
                   /\ CorrectionOrder(OpsOf(an.ref.data))
                   /\ OpsOf(an.ref.data)[1] = "exposure"
                   /\ an.extraReflection.present <=>
                         Positions(OpsOf(an.ref.data), "extraReflection") # {}]_vars

C11_Witness ==
    /\ run.pc = "Normalizing"
    /\ an.class = "PWSAnalysis"
    /\ an.extraReflection.present
    /\ LET ops == OpsOf(cubes[run.c].data)
       IN ops = <<"exposure", "extraReflection", "reference">>

----------------------------------------------------------------------------
(* Claims about settings documents *)

\* the reading operation st records, applied to the document d
ReadAs(op, d) == IF op = "_fromDict" THEN _fromDict(d) ELSE fromJson(d)

\* C16: reading settings from a document that holds keys which are no
\* settings fields succeeds, and gives the settings object read from the same
\* document without those keys.
C16_UnknownKeysIgnored ==
    (st.op \in {"_fromDict", "fromJson"} /\ DOMAIN st.in \cap UnknownKeys # {}) =>
        LET clean == ReadAs(st.op, Document(st.in, UnknownKeys, {}))
        IN clean.err = NoErr => (st.err = NoErr /\ st.out = clean.out)

\* a document of an earlier version: only settings fields, none missing but
\* some of the three added later
IsLegacyDocument(d) ==
    /\ DOMAIN d \subseteq SettingFieldSet
    /\ SettingFieldSet \ DOMAIN d \subseteq LegacyKeys

\* C17: reading a legacy document in which any subset of relativeUnits,
\* extraReflectanceId, cameraCorrection is absent succeeds; each absent key
\* is None in the settings object and each present key has its stored value
\* (the reference material as the Material of the stored name).
C17_LegacyDefaults ==
    (st.op = "_fromDict" /\ IsLegacyDocument(st.in)) =>
        /\ st.err = NoErr
        /\ DOMAIN st.out = SettingFieldSet
        /\ \A k \in SettingFieldSet :
              st.out[k] = IF k \notin DOMAIN st.in THEN None
                          ELSE IF k = "referenceMaterial" /\ st.in[k] # None
                          THEN V("Material", st.in[k].f, 0)
                          ELSE st.in[k]

\* a document without relativeUnits and cameraCorrection that holds an
\* extraReflectanceId has been read
C17_Witness ==
    /\ st.op = "_fromDict"
    /\ DOMAIN st.in = SettingFieldSet \ {"relativeUnits", "cameraCorrection"}
    /\ st.in["extraReflectanceId"] # None
    /\ st.err = NoErr
    /\ st.out["relativeUnits"] = None
    /\ st.out["cameraCorrection"] = None
    /\ st.out["extraReflectanceId"] = st.in["extraReflectanceId"]

\* C18: for every settings object s, converting s to its JSON form and
\* reading it back gives a settings object equal to s, and s is as it was
\* before the conversion; the earlier pipeline's toJson writes its settings.
C18_SettingsRoundTrip ==
    /\ st.op = "roundTrip" => (st.err = NoErr /\ st.out = st.in /\ st.self = st.in)
    /\ st.op = "toJson" => st.err = NoErr

----------------------------------------------------------------------------
(* One cell processed on its own *)

\* _process on the cell `raw` with an analysis object constructed for it
\* alone from the reference as loaded: what _process returns, or the error
runAlone(settings, erMeta, raw) ==
    LET fresh == PWSAnalysis_init(settings, erMeta, RawCube(0, RefLen, TRUE)).an
        c0 == correctCameraEffects(raw)
        c1 == normalizeByExposure(c0)
        c2 == IF fresh.extraReflection.present
              THEN subtractExtraReflection(c1, fresh.extraReflection) ELSE c1
        n == normalizeByReference(c2, fresh.ref)
        c3 == Apply(n.cube, "filter", <<>>)
        sel == selIndex(c3, settings.window)
        k == [Apply(sel, "kspace", <<>>) EXCEPT !.index = "wavenumbers"]
        d == Apply(k, "detrend", <<>>)
        stats == [f \in StatFields |->
                     IF f # "rms" /\ settings.skipAdvanced THEN None
                     ELSE V("ndarray", f, raw.idTag)]
    IN IF n.err # NoErr THEN [err |-> n.err, out |-> NoOut]
       ELSE IF settings.window = "outside"
       THEN [err |-> Err("IndexError", "empty range", ""), out |-> NoOut]
       ELSE [err |-> NoErr,
             out |-> [results |-> create(stats, raw.idTag, fresh.ref.idTag,
                                         fresh.extraReflection, 1),
                      data |-> d.data, warns |-> fresh.initWarnings,
                      md |-> IF fresh.initWarnings # {} THEN raw.idTag ELSE 0]]

----------------------------------------------------------------------------
(* Claims about batches *)

\* every cell of the batch has been saved, has failed or was never finished
BatchOver ==
    /\ batch.state \in {"finished", "failed"}
    /\ \A c \in CubeIds : batch.phase[c] \in {"saved", "failed", "cancelled"}

\* C19: when processing one cube of a batch raises, the exception is
\* reported with that cube's identity, and every other cube of the batch
\* (that does not fail itself) is still processed and its results file is
\* written.
C19_FailureIsolation ==
    BatchOver =>
        \A c \in CubeIds : batch.phase[c] = "failed" =>
            /\ \E i \in 1..Len(batch.emitted) : batch.emitted[i].cell = c
            /\ \A d \in CubeIds \ {c} :
                  batch.phase[d] # "failed" =>
                      (batch.phase[d] = "saved" /\ batch.files[d].exists)

\* the cell c as it was loaded
Loaded0(c) == [cubes[c] EXCEPT !.data = <<>>, !.cameraCorrected = FALSE]

\* the extra reflectance the analysis object of the batch was given
ErMetaOf(a) == IF a.extraReflection.present THEN "er1" ELSE "None"

\* what _process returned, but for the creation time of the record
SansTime(out) == [out EXCEPT !.results["time"] = None]

\* what a saved cell returned is what it returns when processed alone
ResultsAsAlone ==
    \A c \in CubeIds : batch.phase[c] = "saved" =>
        LET alone == runAlone(an.settings, ErMetaOf(an), Loaded0(c))
        IN /\ alone.err = NoErr
           /\ SansTime(batch.out[c]) = SansTime(alone.out)

\* a step of a worker leaves the analysis object with its reference and
\* extra reflection, and every cube but its own, as they were
NoSharedWrite ==
    Working =>
        /\ an' = an
        /\ \A c \in CubeIds : cubes'[c] # cubes[c] => c = batch'.cur

\* C20: in any interleaving of the runs of a batch on one analysis object,
\* no worker writes the reference or the extra reflection of the object or
\* another worker's cube, and what each cell returns is what it returns
\* when processed alone on a freshly constructed analysis object, whatever
\* the order the cells are processed in.
C20_Independence == [](ResultsAsAlone) /\ [][NoSharedWrite]_vars

\* a parallel batch has finished in which the worker of cell 1 was taken off
\* after filtering, the worker of cell 2 ran to its end meanwhile, and
\* cell 1 was finished after it
C20_Witness ==
    /\ batch.state = "finished"
    /\ batch.parallel
    /\ batch.cur = 1
    /\ batch.parked[1].pc = "Filtering"
    /\ batch.parked[2].pc = "Packaged"
    /\ \A c \in CubeIds : batch.out[c].data # <<>>

----------------------------------------------------------------------------
(* Claims about file names *)

\* C21: the file name of a results file is analysisResults_<name>.h5; two
\* different names never give the same file name, and the file name of
\* every name maps back to that name.
C21_NameRoundTrip ==
    /\ \A n1, n2 \in NameStrings : n1 # n2 => name2FileName(n1) # name2FileName(n2)
    /\ st.op = "name2FileName" =>
          (st.out[1] = "M" /\ SubSeq(st.out, 2, Len(st.out) - 3) = st.in
           /\ SubSeq(st.out, Len(st.out) - 2, Len(st.out)) = <<".", "h", "5">>)
    /\ st.op = "listSaved" => (st.err = NoErr /\ st.out = st.in)

----------------------------------------------------------------------------
(* Claims about records *)

\* the record of a saved cell names the cell's cube, the reference the
\* analysis was constructed with and the extra reflection (None without one)
RecordProvenance ==
    \A c \in CubeIds : batch.phase[c] = "saved" =>
        LET r == batch.out[c].results
        IN /\ r["imCubeIdTag"] = V("str", "imCubeIdTag", cubes[c].idTag)
           /\ r["referenceIdTag"] = V("str", "referenceIdTag", ref.idTag)
           /\ r["extraReflectionTag"] =
                 IF an.extraReflection.present
                 THEN V("str", "extraReflectionTag", an.extraReflection.idTag)
                 ELSE None
           /\ r["time"].t = "str"

\* reading any property of the record of a saved cell leaves its dictionary
\* as it is
ReadsLeaveRecord ==
    \A c \in CubeIds : batch.phase[c] = "saved" =>
        \A f \in Props("PWSAnalysisResults") :
            cached_property(RecordOf(batch.out[c], c), EmptyHf, f).self.dict
                = batch.out[c].results

\* saving takes the record as run made it, and no later step of the batch
\* changes the record of a saved cell
RecordFrozen ==
    \A c \in CubeIds :
        /\ (batch.phase[c] # "saved" /\ batch'.phase[c] = "saved") =>
              (batch'.out[c].results = run.results /\ run' = run)
        /\ batch.phase[c] = "saved" =>
              (batch'.phase[c] = "saved" /\ batch'.out[c] = batch.out[c])

\* C22: the record run returns carries the id of the sample cube of that
\* run, the id of the reference of the analysis object and the id of the
\* extra reflection (None when there is none); these and the creation time
\* are set at creation, and no pipeline step, save or read changes a field
\* of the record afterwards.
C22_RecordImmutable ==
    [](RecordProvenance /\ ReadsLeaveRecord) /\ [][RecordFrozen]_vars

\* a batch with an extra reflection has finished: each cell's record was
\* made, saved, and kept while the other cell was processed
C22_Witness ==
    /\ batch.state = "finished"
    /\ an.extraReflection.present
    /\ batch.out[1].results["imCubeIdTag"] # batch.out[2].results["imCubeIdTag"]
    /\ batch.out[1].results["referenceIdTag"] = batch.out[2].results["referenceIdTag"]
    /\ \A c \in CubeIds : batch.files[c].exists

\* C23: when run is called again with the same sample cube on the same
\* analysis object, the record it returns has the fields of the record
\* before, but for the creation time, and the same reflectance data.
C23_Idempotent ==
    (an.class = "PWSAnalysis" /\ run.pc = "Packaged" /\ run.prev.c = run.c) =>
        /\ [run.results EXCEPT !["time"] = None]
              = [run.prev.results EXCEPT !["time"] = None]
        /\ run.cube.data = run.prev.data

----------------------------------------------------------------------------
(* Claims about the numerics *)

\* C25: in both pipelines the fit pairs each x^i with the least-squares
\* coefficient of x^i: for a spectrum that is a polynomial of degree at most
\* the order the fitted values are the spectrum and detrending gives zero
\* everywhere (an order-0 fit of a constant spectrum returns the constant).
C25_FitExact ==
    st.op = "_fitPolynomial" =>
        /\ st.self = st.in.data
        /\ \A j \in 1..Len(st.out) : st.out[j] = 0

----------------------------------------------------------------------------
(* Claims about the report of a batch *)

\* the cells the report lists as completed with warnings
WarnBucket == {w[2] : w \in batch.report.done}

\* the cells the error signals name
FailedBucket == {batch.emitted[i].cell : i \in 1..Len(batch.emitted)} \ {0}

\* C24: when a batch has ended and runSingle has reported, every cell is in
\* exactly one bucket: a failed cell is reported as failed with its
\* identity, a cell saved with warnings is listed with its warnings, and a
\* cell saved without warnings is in neither list.
C24_ReportBuckets ==
    batch.report.made =>
        \A c \in CubeIds :
            /\ batch.phase[c] = "failed" => (c \in FailedBucket /\ c \notin WarnBucket)
            /\ (batch.phase[c] = "saved" /\ batch.out[c].warns # {}) =>
                  (<<batch.out[c].warns, c>> \in batch.report.done /\ c \notin FailedBucket)
            /\ (batch.phase[c] = "saved" /\ batch.out[c].warns = {}) =>
                  (c \notin WarnBucket /\ c \notin FailedBucket)

\* C26: Ld is, pixel by pixel, (A2 / A1) * fact * rms / (-slope): positive
\* where rms > 0 and slope < 0, negative where rms > 0 and slope > 0, NaN
\* where the slope is zero or NaN, whatever the other pixels hold; rms and
\* slope of different shapes are refused.
C26_Ld ==
    st.op = "_calculateLd" =>
        IF st.in.rms.shape # st.in.slope.shape THEN st.err # NoErr
        ELSE /\ st.err = NoErr
             /\ \A p \in 1..Len(st.in.rms.data) :
                   LET r == st.in.rms.data[p]
                       s == st.in.slope.data[p]
                       ld == st.out[p]
                   IN /\ (s.kind = "fin" /\ s.n # 0) =>
                            ld = [kind |-> "fin", sign |-> -1 * r.sign * s.sign,
                                  n |-> r.n * s.d, d |-> r.d * s.n, c |-> 1]
                      /\ (r.n > 0 /\ s.kind = "fin" /\ s.n # 0) =>
                            ld.sign = (IF s.sign < 0 THEN 1 ELSE -1)
                      /\ (s.kind = "nan" \/ s.n = 0) => ld.kind = "nan"

\* the record of the last run, and a record of the same class opened on the
\* file written from it
DictBacked == RecordOf(run, nruns)

WrittenFrom == toHDF(run.results, NoFile)

FileBacked == [DictBacked EXCEPT !.handle = "open", !.dict = NoLoader.dict]

SameAnswer(f) ==
    LET a == cached_property(DictBacked, EmptyHf, f)
        b == cached_property(FileBacked, WrittenFrom.file.hf, f)
    IN a.err = b.err /\ a.val = b.val

\* C27: the record create returned and the record opened on the file written
\* from it answer every property alike: the same value or the same
\* missing-field error, opd and the fields skipAdvanced left at None included.
C27_BackendsAgree ==
    (run.pc = "Packaged" /\ WrittenFrom.err = NoErr) =>
        \A f \in Props("PWSAnalysisResults") : SameAnswer(f)

\* the cells of the batch that hold a results file of the requested name
Conflicting(dirs, item) ==
    {c \in 1..item.ncells : name2FileName(item.anName) \in dirs[c]}

\* runSingle is entered: every cell with a saved analysis of the name is
\* found and the user is asked
AskedFirst ==
    (mgr.pc = "loop" /\ mgr'.pc # "loop") =>
        /\ mgr'.conflictCells = Conflicting(mgr.dirs, mgr'.item)
        /\ mgr'.conflictCells # {} => mgr'.pc = "conflictDialog"

\* the user refuses: nothing is deleted and nothing processed
RefusalKeepsAll ==
    (mgr.pc = "conflictDialog" /\ mgr'.answer = "No") =>
        mgr'.dirs = mgr.dirs /\ mgr'.pc = "returned"

\* the user accepts: every conflicting analysis is removed
AcceptanceRemoves ==
    (mgr.pc = "conflictDialog" /\ mgr'.answer = "Yes") =>
        Conflicting(mgr'.dirs, mgr.item) = {}

\* the thread runs: no write meets an existing results file
NoWriteMeetsFile ==
    (mgr.pc = "thread" /\ mgr'.pc = "threadDone") =>
        Conflicting(mgr.dirs, mgr.item) = {} /\ mgr'.met = {}

\* C28: before a batch is processed every cell that already has a saved
\* analysis of the requested name is found; if there is one the user is
\* asked first; a refusal deletes and processes nothing; an acceptance
\* removes every conflicting analysis before any cell is processed, so no
\* write of the batch meets an existing results file.
C28_ConflictCheck ==
    [][AskedFirst /\ RefusalKeepsAll /\ AcceptanceRemoves /\ NoWriteMeetsFile]_vars

\* runSingle has passed the step that moves the data to shared memory
PastSharedMemory ==
    mgr.pc \in {"thread", "threadDone"}
        \/ (mgr.pc = "returned" /\ mgr.analysis.ref # NoArray)

\* the data of a in shared memory, its values as they were
CopiedUnchanged(a) == a # None /\ a.shared /\ a.vals = "v"

SharedAsClaimed(analysis, er) ==
    /\ CopiedUnchanged(analysis.ref)
    /\ IF er = "None" THEN analysis.extraReflection = None
       ELSE CopiedUnchanged(analysis.extraReflection)

\* C29: the move to shared memory copies the reference data and, only when
\* an extra reflection is present, its data, the values unchanged; a batch
\* of more than 3 cells with parallel processing enabled and no extra
\* reflection passes this step without error; a batch of 3 or fewer cells
\* is never processed in parallel.
C29_SharedMemory ==
    /\ \A er \in {"None", "same"} :
          LET r == copySharedDataToSharedMemory(NewAnalysis(er))
          IN r.err = NoErr /\ SharedAsClaimed(r.self, er)
    /\ PastSharedMemory =>
          /\ mgr.parallel => mgr.item.ncells > maxSequential
          /\ mgr.parallel => mgr.exc = NoErr /\ SharedAsClaimed(mgr.analysis, mgr.item.er)
          /\ (mgr.parallelProcessing /\ mgr.item.ncells > maxSequential) => mgr.parallel

\* C30: runList takes the listed analyses in order and takes an item off
\* the list once it has been run: an item whose runSingle call ended
\* without running the analysis stays listed, and analysisDone has been
\* emitted exactly once for every item taken off.
C30_RemovedOnceRun ==
    [][(mgr.pc = "returned" /\ mgr'.pc # "returned") =>
          /\ mgr'.listed \in {mgr.listed, Tail(mgr.listed)}
          /\ mgr'.listed # mgr.listed <=> (mgr.ret = "ret" /\ mgr.emits = 1)
          /\ mgr.emits <= 1]_vars

============================================================================
